---- MODULE Spec2Model ----
(***************************************************************************)
(* Model of the grid layout and reconciliation engine of linearToExcel:    *)
(* src/src/excel_generator.py (populate_sheet, populate_sheet_refresh,     *)
(* read_existing_capacity_data, refresh_excel and their helpers            *)
(* generate_week_dates, get_week_index and format_name).                   *)
(*                                                                         *)
(* Texts are sequences of one-character strings, so that the string        *)
(* operations of the code (split, capitalize, join, substring test,        *)
(* float parsing, ordering) are computed and not assumed.  Timestamps are  *)
(* counted in hours.  A worksheet is a function from <<row, column>> to a  *)
(* cell; a position outside its domain is a cell that was never touched.   *)
(***************************************************************************)
EXTENDS Integers, Sequences, FiniteSets, TLC

(***************************************************************************)
(* Bounds of the model.                                                    *)
(***************************************************************************)
\* largest number of issues in one fetched issue list
MaxItems == 2
\* largest number of week columns (--weeks)
MaxWeeks == 4
\* largest number of manual edits made to a saved sheet
MaxEdits == 1
\* number of week columns of a sheet that is edited and refreshed
MaxRefreshWeeks == 2

(***************************************************************************)
(* Texts.                                                                  *)
(***************************************************************************)
\* the characters used, in code point order (the order Python compares in)
Ascii ==
    << " ", "!", "(", ")", "-", ".", "/", "0", "1", "2", "3", "4", "5", "6", "7",
       "8", "9", ":", "=", "@",
       "A", "B", "C", "D", "E", "F", "G", "H", "I", "J", "K", "L", "M", "N",
       "O", "P", "Q", "R", "S", "T", "U", "V", "W", "X", "Y", "Z",
       "a", "b", "c", "d", "e", "f", "g", "h", "i", "j", "k", "l", "m", "n",
       "o", "p", "q", "r", "s", "t", "u", "v", "w", "x", "y", "z" >>

Chars == {Ascii[i] : i \in 1..Len(Ascii)}

Ord == [c \in Chars |-> CHOOSE i \in 1..Len(Ascii) : Ascii[i] = c]

FirstUpper == Ord["A"]

FirstLower == Ord["a"]

IsUpper(c) == Ord[c] >= FirstUpper /\ Ord[c] < FirstLower

IsLower(c) == Ord[c] >= FirstLower

IsDigit(c) == Ord[c] >= Ord["0"] /\ Ord[c] <= Ord["9"]

\* str.upper / str.lower of one character
UpperChar(c) == IF IsLower(c) THEN Ascii[Ord[c] - FirstLower + FirstUpper] ELSE c

LowerChar(c) == IF IsUpper(c) THEN Ascii[Ord[c] - FirstUpper + FirstLower] ELSE c

LowerText(s) == [i \in 1..Len(s) |-> LowerChar(s[i])]

\* str.capitalize(): first character upper-cased, the rest lower-cased
Capitalize(s) ==
    [i \in 1..Len(s) |-> IF i = 1 THEN UpperChar(s[i]) ELSE LowerChar(s[i])]

\* Python's < on str: lexicographic by code point, a proper prefix is smaller
RECURSIVE TextLess(_, _)
TextLess(a, b) ==
    IF b = <<>> THEN FALSE
    ELSE IF a = <<>> THEN TRUE
    ELSE IF a[1] # b[1] THEN Ord[a[1]] < Ord[b[1]]
    ELSE TextLess(Tail(a), Tail(b))

\* str.split(sep) for a one-character separator: empty tokens are kept
RECURSIVE SplitOn(_, _)
SplitOn(s, sep) ==
    LET at == {j \in 1..Len(s) : s[j] = sep}
    IN  IF at = {} THEN << s >>
        ELSE LET i == CHOOSE j \in at : \A k \in at : j <= k
             IN  << SubSeq(s, 1, i - 1) >> \o SplitOn(SubSeq(s, i + 1, Len(s)), sep)

\* str.split() with no argument: runs of whitespace separate, no empty token
SplitWhitespace(s) == SelectSeq(SplitOn(s, " "), LAMBDA t : t # <<>>)

\* sep.join(tokens)
RECURSIVE JoinWith(_, _)
JoinWith(tokens, sep) ==
    IF tokens = <<>> THEN <<>>
    ELSE IF Len(tokens) = 1 THEN tokens[1]
    ELSE tokens[1] \o << sep >> \o JoinWith(Tail(tokens), sep)

\* str.strip()
RECURSIVE Strip(_)
Strip(s) ==
    IF s = <<>> THEN s
    ELSE IF s[1] = " " THEN Strip(Tail(s))
    ELSE IF s[Len(s)] = " " THEN Strip(SubSeq(s, 1, Len(s) - 1))
    ELSE s

\* needle in haystack
Contains(haystack, needle) ==
    \E i \in 1..(Len(haystack) - Len(needle) + 1) :
        SubSeq(haystack, i, i + Len(needle) - 1) = needle

\* the decimal digits of a natural number, as str(n) writes them
RECURSIVE Digits(_)
Digits(n) ==
    IF n < 10 THEN << Ascii[Ord["0"] + n] >>
    ELSE Digits(n \div 10) \o << Ascii[Ord["0"] + (n % 10)] >>

RECURSIVE DigitsValue(_)
DigitsValue(s) ==
    IF s = <<>> THEN 0
    ELSE 10 * DigitsValue(SubSeq(s, 1, Len(s) - 1)) + (Ord[s[Len(s)]] - Ord["0"])

(***************************************************************************)
(* format_name and extract_unique_assignees.                               *)
(***************************************************************************)
AtSign == "@"

\* a slip: the tokens are joined as they are, not capitalized
format_name_KeepCase(name, first_only) ==
    IF name = <<>> THEN name
    ELSE LET n1 == IF AtSign \in {name[i] : i \in 1..Len(name)}
                   THEN JoinWith(SplitOn(SplitOn(name, AtSign)[1], "."), " ")
                   ELSE name
         IN  IF first_only
             THEN IF n1 # <<>> THEN SplitWhitespace(n1)[1] ELSE n1
             ELSE n1

\* excel_generator.format_name, for a name on which it returns
format_name(name, first_only) ==
    IF name = <<>> THEN name
    ELSE LET n1 == IF AtSign \in {name[i] : i \in 1..Len(name)}
                   THEN LET local == SplitOn(name, AtSign)[1]
                            words == SplitOn(local, ".")
                        IN  JoinWith([i \in 1..Len(words) |-> Capitalize(words[i])], " ")
                   ELSE name
         IN  IF first_only
             THEN IF n1 # <<>> THEN SplitWhitespace(n1)[1] ELSE n1
             ELSE n1

\* line 47: name.split()[0] raises IndexError when the name, not empty,
\* holds no token
FormatNameRaises(name, first_only) ==
    /\ first_only
    /\ format_name(name, FALSE) # <<>>
    /\ SplitWhitespace(format_name(name, FALSE)) = <<>>

(***************************************************************************)
(* Timestamps and the week grid.                                           *)
(***************************************************************************)
HoursPerDay == 24

DaysPerWeek == 7

\* A timestamp string of the API: absent or empty, an ISO-8601 string (t is
\* the instant it denotes, in hours), or a non-empty string that
\* datetime.fromisoformat rejects.
NoStamp == [k |-> "empty", t |-> 0]

Iso(t) == [k |-> "iso", t |-> t]

BadStamp == [k |-> "bad", t |-> 0]

(***************************************************************************)
(* ISO-8601 texts and the proleptic Gregorian calendar of datetime.  Hour  *)
(* 0 of the model is 2025-01-01T00:00.                                     *)
(***************************************************************************)
\* days from 0000-03-01 to 2025-01-01
EpochDays == 739557

\* the day number of a civil date, counted from 0000-03-01
DaysFromCivil(y, m, d) ==
    LET yy == IF m <= 2 THEN y - 1 ELSE y
        era == yy \div 400
        yoe == yy - era * 400
        mp == IF m > 2 THEN m - 3 ELSE m + 9
        doy == (153 * mp + 2) \div 5 + d - 1
        doe == yoe * 365 + yoe \div 4 - yoe \div 100 + doy
    IN  era * 146097 + doe

\* the civil date of a day number counted from 0000-03-01
CivilFromDays(z) ==
    LET era == z \div 146097
        doe == z - era * 146097
        yoe == (doe - doe \div 1460 + doe \div 36524 - doe \div 146096) \div 365
        doy == doe - (365 * yoe + yoe \div 4 - yoe \div 100)
        mp == (5 * doy + 2) \div 153
        d == doy - (153 * mp + 2) \div 5 + 1
        m == IF mp < 10 THEN mp + 3 ELSE mp - 9
        y == yoe + era * 400 + (IF m <= 2 THEN 1 ELSE 0)
    IN  [year |-> y, month |-> m, day |-> d]

IsLeapYear(y) == (y % 4 = 0 /\ y % 100 # 0) \/ y % 400 = 0

DaysInMonth(y, m) ==
    IF m = 2 THEN (IF IsLeapYear(y) THEN 29 ELSE 28)
    ELSE IF m \in {4, 6, 9, 11} THEN 30 ELSE 31

\* a number in two, or four, digits
Pad2(n) == IF n < 10 THEN << "0" >> \o Digits(n) ELSE Digits(n)

Pad4(n) ==
    IF n < 10 THEN << "0", "0", "0" >> \o Digits(n)
    ELSE IF n < 100 THEN << "0", "0" >> \o Digits(n)
    ELSE IF n < 1000 THEN << "0" >> \o Digits(n)
    ELSE Digits(n)

\* the text of a timestamp as the API writes it: "2025-01-15T00:00:00.000Z"
IsoText(t) ==
    LET hours == t + EpochDays * HoursPerDay
        civil == CivilFromDays(hours \div HoursPerDay)
    IN  Pad4(civil.year) \o << "-" >> \o Pad2(civil.month) \o << "-" >> \o Pad2(civil.day)
        \o << "T" >> \o Pad2(hours % HoursPerDay)
        \o << ":", "0", "0", ":", "0", "0", ".", "0", "0", "0", "Z" >>

\* the text of a date alone: "2025-01-15"
DateText(t) == SubSeq(IsoText(t), 1, 10)

\* str.replace("Z", "+00:00")
RECURSIVE ReplaceZ(_)
ReplaceZ(s) ==
    IF s = <<>> THEN <<>>
    ELSE (IF s[1] = "Z" THEN << "+", "0", "0", ":", "0", "0" >> ELSE << s[1] >>)
         \o ReplaceZ(Tail(s))

AllDigits(s, from, to) == \A i \in from..to : IsDigit(s[i])

\* hh:mm at position from of s, hh below limit
ClockAt(s, from, limit) ==
    /\ AllDigits(s, from, from + 1)
    /\ s[from + 2] = ":"
    /\ AllDigits(s, from + 3, from + 4)
    /\ DigitsValue(SubSeq(s, from, from + 1)) < limit
    /\ DigitsValue(SubSeq(s, from + 3, from + 4)) < 60

\* datetime.fromisoformat(s).replace(tzinfo=None) for the forms
\* YYYY-MM-DD, YYYY-MM-DD?HH:MM:SS, with an optional .fff fraction and an
\* optional +HH:MM offset after the time; every other text is rejected
\* here, so only texts of these forms or texts that no version of
\* fromisoformat accepts are drawn as inputs.  The offset is dropped, not
\* applied.
FromIsoFormat(s) ==
    LET n == Len(s)
        date_ok == /\ n >= 10
                   /\ AllDigits(s, 1, 4) /\ s[5] = "-" /\ AllDigits(s, 6, 7)
                   /\ s[8] = "-" /\ AllDigits(s, 9, 10)
        y == DigitsValue(SubSeq(s, 1, 4))
        m == DigitsValue(SubSeq(s, 6, 7))
        d == DigitsValue(SubSeq(s, 9, 10))
        civil_ok == /\ y >= 1 /\ m >= 1 /\ m <= 12
                    /\ d >= 1 /\ d <= DaysInMonth(y, m)
        time_ok == /\ n >= 19
                   /\ s[11] \in {"T", " "}
                   /\ ClockAt(s, 12, 24)
                   /\ s[17] = ":" /\ AllDigits(s, 18, 19)
                   /\ DigitsValue(SubSeq(s, 18, 19)) < 60
        fraction == n >= 23 /\ s[20] = "." /\ AllDigits(s, 21, 23)
        rest == IF n < 19 THEN 10 ELSE IF fraction THEN 23 ELSE 19
        offset_ok == /\ n = rest + 6
                     /\ s[rest + 1] \in {"+", "-"}
                     /\ ClockAt(s, rest + 2, 24)
        shape_ok == \/ n = 10
                    \/ time_ok /\ (n = rest \/ offset_ok)
        hh == IF n = 10 THEN 0 ELSE DigitsValue(SubSeq(s, 12, 13))
    IN  IF date_ok /\ civil_ok /\ shape_ok
        THEN [ok |-> TRUE,
              t |-> (DaysFromCivil(y, m, d) - EpochDays) * HoursPerDay + hh]
        ELSE [ok |-> FALSE, t |-> 0]

\* what get_week_index makes of the text it is given (lines 72-75)
Stamp(text) ==
    IF text = <<>> THEN NoStamp
    ELSE LET parsed == FromIsoFormat(ReplaceZ(text))
         IN  IF parsed.ok THEN Iso(parsed.t) ELSE BadStamp

\* a datetime object given where the text is expected
DatetimeArg(t) == [k |-> "datetime", t |-> t]

\* Python's <= on two timestamp strings.  The API writes every timestamp in
\* one fixed-width UTC format, so two ISO strings compare as their instants
\* do; the rejected string starts with a letter, which sorts after every
\* digit, and the empty string sorts before everything.
StampLeq(a, b) ==
    IF a.k = "empty" THEN TRUE
    ELSE IF b.k = "empty" THEN FALSE
    ELSE IF a.k = "bad" THEN b.k = "bad"
    ELSE IF b.k = "bad" THEN TRUE
    ELSE a.t <= b.t

\* a slip: the difference is taken in hours, .days is forgotten
DaysBetween_InHours(a, b) == a - b

\* timedelta.days of (a - b): whole days, rounded towards minus infinity
DaysBetween(a, b) == (a - b) \div HoursPerDay

\* a slip: the list starts a week after the start date
generate_week_dates_FromNextWeek(start_date, num_weeks) ==
    [i \in 1..num_weeks |-> start_date + i * DaysPerWeek * HoursPerDay]

generate_week_dates(start_date, num_weeks) ==
    [i \in 1..num_weeks |-> start_date + (i - 1) * DaysPerWeek * HoursPerDay]

\* a slip: weeks numbered from one
get_week_index_OneBased(cycle_start, start_date, num_weeks) ==
    IF cycle_start.k = "empty" THEN -1
    ELSE IF cycle_start.k = "bad" THEN -1
    ELSE LET days_diff == DaysBetween(cycle_start.t, start_date)
             week_index == days_diff \div DaysPerWeek + 1
         IN  IF days_diff < 0 THEN -2 ELSE week_index

\* a slip: a date before the start date is reported as invalid
get_week_index_BeforeAsInvalid(cycle_start, start_date, num_weeks) ==
    IF cycle_start.k = "empty" THEN -1
    ELSE IF cycle_start.k \in {"bad", "datetime"} THEN -1
    ELSE LET days_diff == DaysBetween(cycle_start.t, start_date)
             week_index == days_diff \div DaysPerWeek
         IN  IF days_diff < 0 THEN -1 ELSE week_index

\* Given a datetime instead of a text, cycle_start.replace("Z", "+00:00")
\* is datetime.replace with two strings and raises TypeError, which is
\* caught like the ValueError of a rejected text.
get_week_index(cycle_start, start_date, num_weeks) ==
    IF cycle_start.k = "empty" THEN -1
    ELSE IF cycle_start.k \in {"bad", "datetime"} THEN -1
    ELSE LET days_diff == DaysBetween(cycle_start.t, start_date)
             week_index == days_diff \div DaysPerWeek
         IN  IF days_diff < 0 THEN -2 ELSE week_index

\* the caller's clamp of a week index into the window (lines 251-254)
ClampWeek(week_idx, num_weeks) ==
    IF week_idx < 0 THEN 0
    ELSE IF week_idx >= num_weeks THEN num_weeks - 1
    ELSE week_idx

(***************************************************************************)
(* Cells and worksheets.                                                   *)
(***************************************************************************)
\* A cell value: None, a number, a text, a datetime, or a SUMIF formula
\* (f = <<criteria column, first row, last row, criterion row, summed
\* column>>, for =SUMIF($G$first:$G$last,$Grow,X$first:X$last)).
NoneVal == [k |-> "none", n |-> 0, s |-> <<>>, f |-> <<>>]

NumVal(n) == [k |-> "num", n |-> n, s |-> <<>>, f |-> <<>>]

TextVal(s) == [k |-> "str", n |-> 0, s |-> s, f |-> <<>>]

DateVal(t) == [k |-> "date", n |-> t, s |-> <<>>, f |-> <<>>]

FormulaVal(crit_col, first, last, crit_row, col) ==
    [k |-> "formula", n |-> 0, s |-> <<>>,
     f |-> <<crit_col, first, last, crit_row, col>>]

Cell(v, fill) == [v |-> v, fill |-> fill]

\* one written cell
Put(row, col, v, fill) == (<<row, col>> :> Cell(v, fill))

EmptySheet == << >>

\* ws.cell(row, column).value
CellValue(ws, row, col) ==
    IF <<row, col>> \in DOMAIN ws THEN ws[<<row, col>>].v ELSE NoneVal

CellFill(ws, row, col) ==
    IF <<row, col>> \in DOMAIN ws THEN ws[<<row, col>>].fill ELSE "none"

\* ws.max_row and ws.max_column (1 for a sheet with no cell)
SetMax(S) == CHOOSE x \in S : \A y \in S : y <= x

max_row(ws) == IF DOMAIN ws = {} THEN 1 ELSE SetMax({p[1] : p \in DOMAIN ws})

max_column(ws) == IF DOMAIN ws = {} THEN 1 ELSE SetMax({p[2] : p \in DOMAIN ws})

\* Python truthiness of a cell value (None, "", 0 are falsy)
Truthy(v) ==
    CASE v.k = "none" -> FALSE
      [] v.k = "str"  -> v.s # <<>>
      [] v.k = "num"  -> v.n # 0
      [] OTHER        -> TRUE

\* the later writes of a sequence of write sets win
RECURSIVE WriteAll(_)
WriteAll(steps) ==
    IF steps = <<>> THEN EmptySheet
    ELSE steps[Len(steps)] @@ WriteAll(SubSeq(steps, 1, Len(steps) - 1))

\* What a spreadsheet program computes for the SUMIF of a formula cell: the
\* sum of the numbers of the summed column over the rows of the range whose
\* criteria cell is a text equal, letter case apart, to the text of the
\* criterion cell.  A text in the summed column adds nothing, and a range
\* written last-before-first is the same range.
RECURSIVE SumOver(_, _, _)
SumOver(ws, rows, col) ==
    IF rows = {} THEN 0
    ELSE LET r == CHOOSE x \in rows : TRUE
             v == CellValue(ws, r, col)
         IN  (IF v.k = "num" THEN v.n ELSE 0) + SumOver(ws, rows \ {r}, col)

SumIf(ws, formula) ==
    LET crit_col == formula.f[1]
        lo == IF formula.f[2] <= formula.f[3] THEN formula.f[2] ELSE formula.f[3]
        hi == IF formula.f[2] <= formula.f[3] THEN formula.f[3] ELSE formula.f[2]
        criterion == CellValue(ws, formula.f[4], crit_col)
        matching == {r \in lo..hi :
                        /\ CellValue(ws, r, crit_col).k = "str"
                        /\ criterion.k = "str"
                        /\ LowerText(CellValue(ws, r, crit_col).s) = LowerText(criterion.s)}
    IN  SumOver(ws, matching, formula.f[5])

(***************************************************************************)
(* The literal texts of the code.                                          *)
(***************************************************************************)
AssigneeLabel == << "A", "s", "s", "i", "g", "n", "e", "e" >>

CapacityWeekLabel == << "C", "a", "p", "a", "c", "i", "t", "y", "/", "w", "e", "e", "k" >>

InitiativeLabel == << "I", "n", "i", "t", "i", "a", "t", "i", "v", "e" >>

ProjectsLabel == << "P", "r", "o", "j", "e", "c", "t", "s" >>

IssueLabel == << "I", "s", "s", "u", "e" >>

EstimateLabel == << "E", "s", "t", "i", "m", "a", "t", "e", " ", "(", "d", "a", "y", "s", ")" >>

DescriptionLabel == << "D", "e", "s", "c", "r", "i", "p", "t", "i", "o", "n" >>

LinearTicketLabel == << "L", "i", "n", "e", "a", "r", " ", "T", "i", "c", "k", "e", "t" >>

AssignedToLabel == << "A", "s", "s", "i", "g", "n", "e", "d", " ", "t", "o" >>

NoAssigneeLabel == << "N", "o", " ", "a", "s", "s", "i", "g", "n", "e", "e" >>

NoCycleSuffix == << " ", "(", "N", "o", " ", "c", "y", "c", "l", "e", "!", ")" >>

NoProjectName == << "N", "o", " ", "P", "r", "o", "j", "e", "c", "t" >>

NoInitiativeName == << "N", "o", " ", "I", "n", "i", "t", "i", "a", "t", "i", "v", "e" >>

LinearVsEstimatedLabel == << "L", "i", "n", "e", "a", "r", " ", "v", "s", " ", "E", "s", "t", "i", "m", "a", "t", "e", "d" >>

DataSourceLabel == << "D", "a", "t", "a", " ", "S", "o", "u", "r", "c", "e" >>

LinearLabel == << "L", "i", "n", "e", "a", "r" >>

EstimatedLabel == << "E", "s", "t", "i", "m", "a", "t", "e", "d" >>

EstimationLabel == << "E", "s", "t", "i", "m", "a", "t", "i", "o", "n" >>

CapacityLabel == << "C", "a", "p", "a", "c", "i", "t", "y" >>

\* INACTIVE_STATUS_TYPES
INACTIVE_STATUS_TYPES == {"backlog", "triage", "canceled", "cancelled"}

\* the description column keeps this many characters
DescriptionLimit == 500

(***************************************************************************)
(* Issues, as the API returns them.                                        *)
(***************************************************************************)
\* estimate: None or a number of days
NoEstimate == [k |-> "none", n |-> 0]

Estimate(n) == [k |-> "num", n |-> n]

\* project: absent, or a name and the names of its initiatives in order
NoProject == [has |-> FALSE, name |-> <<>>, initiatives |-> <<>>]

Project(name, initiatives) == [has |-> TRUE, name |-> name, initiatives |-> initiatives]

\* an absent assignee, or one with no name: format_name("") is ""
NoName == <<>>

\* extract_unique_assignees: the set of raw names, each formatted, sorted.
\* Two raw names with one display name give that display name twice.
RECURSIVE SortedDisplayNames(_)
SortedDisplayNames(raw_names) ==
    IF raw_names = {} THEN <<>>
    ELSE LET least == CHOOSE r \in raw_names :
                 \A q \in raw_names :
                     ~TextLess(format_name(q, TRUE), format_name(r, TRUE))
         IN  << format_name(least, TRUE) >> \o SortedDisplayNames(raw_names \ {least})

extract_unique_assignees(issues) ==
    SortedDisplayNames({issues[i].assignee : i \in {j \in 1..Len(issues) :
                                                    issues[j].assignee # NoName}})

\* a slip: the last initiative listed is used
GroupKey_LastInitiative(issue) ==
    LET project_name == IF issue.project.has THEN issue.project.name ELSE NoProjectName
        initiatives == issue.project.initiatives
        initiative_name == IF initiatives # <<>> THEN initiatives[Len(initiatives)]
                           ELSE NoInitiativeName
    IN  << initiative_name, project_name >>

\* the key an issue is grouped under (lines 181-187)
GroupKey(issue) ==
    LET project_name == IF issue.project.has THEN issue.project.name ELSE NoProjectName
        initiatives == issue.project.initiatives
        initiative_name == IF initiatives # <<>> THEN initiatives[1] ELSE NoInitiativeName
    IN  << initiative_name, project_name >>

\* a slip: the groups are ordered by project name alone
KeyLess_ProjectOnly(a, b) == TextLess(a[2], b[2])

\* Python's < on the (initiative, project) tuples
KeyLess(a, b) ==
    IF a[1] # b[1] THEN TextLess(a[1], b[1]) ELSE TextLess(a[2], b[2])

\* sorted(grouped_issues.keys())
RECURSIVE SortedKeys(_)
SortedKeys(keys) ==
    IF keys = {} THEN <<>>
    ELSE LET least == CHOOSE k \in keys : \A q \in keys : ~KeyLess(q, k)
         IN  << least >> \o SortedKeys(keys \ {least})

\* the issues of one group, in the order fetched (their indices)
RECURSIVE GroupMembers(_, _, _)
GroupMembers(issues, key, from) ==
    IF from > Len(issues) THEN <<>>
    ELSE (IF GroupKey(issues[from]) = key THEN << from >> ELSE <<>>)
         \o GroupMembers(issues, key, from + 1)

\* The rows of the data block in the order written (lines 195-204 and 276):
\* idx = 0 is a gray separator row, idx > 0 the row of issues[idx].
SeparatorRow == [idx |-> 0, initiative_name |-> <<>>, project_name |-> <<>>]

IssueRows(issues, key) ==
    LET members == GroupMembers(issues, key, 1)
    IN  [j \in 1..Len(members) |->
            [idx |-> members[j], initiative_name |-> key[1], project_name |-> key[2]]]

\* a slip: a separator is written before the first group as well
RECURSIVE RowPlanFrom_SeparatorFirst(_, _, _, _)
RowPlanFrom_SeparatorFirst(issues, keys, first, last_initiative) ==
    IF keys = <<>> THEN <<>>
    ELSE LET key == keys[1]
             separator == IF key[1] # last_initiative
                          THEN << SeparatorRow >> ELSE <<>>
         IN  separator \o IssueRows(issues, key)
                 \o RowPlanFrom_SeparatorFirst(issues, Tail(keys), FALSE, key[1])

RECURSIVE RowPlanFrom(_, _, _, _)
RowPlanFrom(issues, keys, first, last_initiative) ==
    IF keys = <<>> THEN <<>>
    ELSE LET key == keys[1]
             separator == IF ~first /\ key[1] # last_initiative
                          THEN << SeparatorRow >> ELSE <<>>
         IN  separator \o IssueRows(issues, key)
                 \o RowPlanFrom(issues, Tail(keys), FALSE, key[1])

RowPlan(issues) ==
    RowPlanFrom(issues, SortedKeys({GroupKey(issues[i]) : i \in 1..Len(issues)}),
                TRUE, <<>>)

(***************************************************************************)
(* populate_sheet (lines 84-294).                                          *)
(***************************************************************************)
\* description[:500] if len(description) > 500 else description
TruncatedDescription(description) ==
    IF Len(description) > DescriptionLimit
    THEN SubSeq(description, 1, DescriptionLimit) ELSE description

\* lines 112-129: the capacity header row
CapacityHeaderCells(capacity_header_row, label_col, week_dates) ==
    LET num_weeks == Len(week_dates)
    IN  Put(capacity_header_row, label_col + 1 + num_weeks,
            TextVal(CapacityWeekLabel), "yellow")
        @@ [p \in {<<capacity_header_row, label_col + i>> : i \in 1..num_weeks} |->
               Cell(DateVal(week_dates[p[2] - label_col]), "yellow")]
        @@ Put(capacity_header_row, label_col, TextVal(AssigneeLabel), "yellow")

\* a slip: the capacity rows are written one row too low
CapacityRowCells_OneRowDown(assignees, capacity_start_row, label_col, num_weeks, first, last) ==
    [p \in {<<capacity_start_row + idx, label_col>> : idx \in 1..Len(assignees)} |->
        Cell(TextVal(assignees[p[1] - capacity_start_row]), "none")]
    @@ [p \in {<<capacity_start_row + idx, label_col + i>> :
                   idx \in 1..Len(assignees), i \in 1..num_weeks} |->
           Cell(FormulaVal(label_col, first, last, p[1], p[2]), "none")]

\* lines 141-149 and 280-286: one row per entry of assignees, a SUMIF per week
CapacityRowCells(assignees, capacity_start_row, label_col, num_weeks, first, last) ==
    [p \in {<<capacity_start_row + idx - 1, label_col>> : idx \in 1..Len(assignees)} |->
        Cell(TextVal(assignees[p[1] - capacity_start_row + 1]), "none")]
    @@ [p \in {<<capacity_start_row + idx - 1, label_col + i>> :
                   idx \in 1..Len(assignees), i \in 1..num_weeks} |->
           Cell(FormulaVal(label_col, first, last, p[1], p[2]), "none")]

\* a slip: the formulas are not written again after the data rows
CapacityFormulaCells_NotRewritten(assignees, capacity_start_row, label_col, num_weeks, first, last) ==
    [p \in {} |-> Cell(NoneVal, "none")]

\* lines 280-286: the formulas alone, over the rows actually written
CapacityFormulaCells(assignees, capacity_start_row, label_col, num_weeks, first, last) ==
    [p \in {<<capacity_start_row + idx - 1, label_col + i>> :
                idx \in 1..Len(assignees), i \in 1..num_weeks} |->
        Cell(FormulaVal(label_col, first, last, p[1], p[2]), "none")]

\* lines 151-177: the header row of populate_sheet
HeaderCells(header_row, week_dates) ==
    LET headers == << InitiativeLabel, ProjectsLabel, IssueLabel, EstimateLabel,
                      DescriptionLabel, LinearTicketLabel, AssignedToLabel >>
    IN  [p \in {<<header_row, 7 + i>> : i \in 1..Len(week_dates)} |->
            Cell(DateVal(week_dates[p[2] - 7]), "yellow")]
        @@ [p \in {<<header_row, c>> : c \in 1..Len(headers)} |->
               Cell(TextVal(headers[p[2]]), "yellow")]

\* lines 197-200: a gray row over columns 1..last_col, no value in it
SeparatorCells(row, last_col) ==
    [p \in {<<row, c>> : c \in 1..last_col} |-> Cell(NoneVal, "gray")]

\* a slip: an issue is placed only when somebody is assigned to it
PlacementCells_AssigneeRequired(issue, row, start_date, num_weeks, cycle_start) ==
    IF issue.estimate.k = "none" \/ issue.assignee = <<>> THEN EmptySheet
    ELSE IF issue.cycle.k # "empty"
    THEN LET should_show == IF cycle_start.k # "empty"
                            THEN StampLeq(issue.cycle, cycle_start) ELSE TRUE
             week_idx == ClampWeek(get_week_index(issue.cycle, start_date, num_weeks),
                                   num_weeks)
         IN  IF should_show
             THEN Put(row, 8 + week_idx, NumVal(issue.estimate.n), "green")
             ELSE EmptySheet
    ELSE IF issue.status_type \notin INACTIVE_STATUS_TYPES
    THEN LET week_idx ==
                 IF issue.updatedAt.k # "empty"
                 THEN ClampWeek(get_week_index(issue.updatedAt, start_date, num_weeks),
                                num_weeks)
                 ELSE num_weeks - 1
         IN  Put(row, 8 + week_idx,
                 TextVal(Digits(issue.estimate.n) \o NoCycleSuffix), "yellow")
    ELSE EmptySheet

\* lines 235-274: the weekly placement of one issue (at most one cell)
PlacementCells(issue, row, start_date, num_weeks, cycle_start) ==
    IF issue.estimate.k = "none" THEN EmptySheet
    ELSE IF issue.cycle.k # "empty"
    THEN LET should_show == IF cycle_start.k # "empty"
                            THEN StampLeq(issue.cycle, cycle_start) ELSE TRUE
             week_idx == ClampWeek(get_week_index(issue.cycle, start_date, num_weeks),
                                   num_weeks)
         IN  IF should_show
             THEN Put(row, 8 + week_idx, NumVal(issue.estimate.n), "green")
             ELSE EmptySheet
    ELSE IF issue.status_type \notin INACTIVE_STATUS_TYPES
    THEN LET week_idx ==
                 IF issue.updatedAt.k # "empty"
                 THEN ClampWeek(get_week_index(issue.updatedAt, start_date, num_weeks),
                                num_weeks)
                 ELSE num_weeks - 1
         IN  Put(row, 8 + week_idx,
                 TextVal(Digits(issue.estimate.n) \o NoCycleSuffix), "yellow")
    ELSE EmptySheet

\* lines 204-233: the descriptive columns of one issue row
IssueCells(entry, issue, row) ==
    LET assignee_name == format_name(issue.assignee, TRUE)
    IN  (IF assignee_name = <<>>
         THEN Put(row, 7, TextVal(NoAssigneeLabel), "red")
         ELSE Put(row, 7, TextVal(assignee_name), "none"))
        @@ Put(row, 6, TextVal(issue.url), "none")
        @@ Put(row, 5, TextVal(TruncatedDescription(issue.description)), "none")
        @@ (IF issue.estimate.k # "none"
            THEN Put(row, 4, NumVal(issue.estimate.n), "green") ELSE EmptySheet)
        @@ Put(row, 3, TextVal(issue.title), "none")
        @@ Put(row, 2, TextVal(entry.project_name), "none")
        @@ Put(row, 1, TextVal(entry.initiative_name), "none")

\* lines 190-276: the data block, row j of the plan at data_start_row + j - 1
RECURSIVE DataCells(_, _, _, _, _, _, _)
DataCells(plan, j, issues, data_start_row, start_date, num_weeks, cycle_start) ==
    IF j > Len(plan) THEN EmptySheet
    ELSE LET row == data_start_row + j - 1
             entry == plan[j]
         IN  (IF entry.idx = 0
              THEN SeparatorCells(row, 7 + num_weeks)
              ELSE PlacementCells(issues[entry.idx], row, start_date, num_weeks,
                                  cycle_start)
                   @@ IssueCells(entry, issues[entry.idx], row))
             @@ DataCells(plan, j + 1, issues, data_start_row, start_date, num_weeks,
                          cycle_start)

populate_sheet(issues, start_date, num_weeks, cycle_start) ==
    LET assignees == extract_unique_assignees(issues)
        capacity_header_row == 1
        week_dates == generate_week_dates(start_date, num_weeks)
        capacity_start_row == 2
        header_row == capacity_start_row + Len(assignees) + 1
        data_start_row == header_row + 1
        estimated_last_row == data_start_row + Len(issues)
        plan == RowPlan(issues)
        current_row == data_start_row + Len(plan)
        actual_last_row == current_row - 1
    IN  WriteAll(<<
            CapacityHeaderCells(capacity_header_row, 7, week_dates),
            CapacityRowCells(assignees, capacity_start_row, 7, num_weeks,
                             data_start_row, estimated_last_row),
            HeaderCells(header_row, week_dates),
            DataCells(plan, 1, issues, data_start_row, start_date, num_weeks,
                      cycle_start),
            CapacityFormulaCells(assignees, capacity_start_row, 7, num_weeks,
                                 data_start_row, actual_last_row) >>)

(***************************************************************************)
(* read_existing_capacity_data (lines 634-744).                            *)
(***************************************************************************)
\* the header row is looked for in rows 1 .. HeaderScanLimit - 1
HeaderScanLimit == 50

SetMin(S) == CHOOSE x \in S : \A y \in S : x <= y

\* str(value) of a cell value.  A formula is read back as the text of the
\* formula and a datetime prints as digits and punctuation: neither holds a
\* letter of the labels that are looked for.
StrOf(v) ==
    CASE v.k = "str"     -> v.s
      [] v.k = "num"     -> IF v.n < 0 THEN << "-" >> \o Digits(-v.n) ELSE Digits(v.n)
      [] v.k = "date"    -> Digits(v.n) \o << ":" >>
      [] v.k = "formula" -> << "=" >>
      [] OTHER           -> <<>>

\* float(cell_val): [ok, n].  A number converts to itself; a text converts
\* when, stripped, it is an optionally signed run of digits; a datetime
\* raises TypeError and any other text ValueError.
ParseFloat(v) ==
    LET t == Strip(StrOf(v))
        body == IF t # <<>> /\ t[1] = "-" THEN Tail(t) ELSE t
    IN  CASE v.k = "num" -> [ok |-> TRUE, n |-> v.n]
          [] v.k = "str" ->
               IF body # <<>> /\ \A i \in 1..Len(body) : IsDigit(body[i])
               THEN [ok |-> TRUE,
                     n |-> IF t[1] = "-" THEN -DigitsValue(body) ELSE DigitsValue(body)]
               ELSE [ok |-> FALSE, n |-> 0]
          [] OTHER -> [ok |-> FALSE, n |-> 0]

\* lines 652-666: the first row, among rows 1..49, whose column G or else
\* column F holds a text containing "Linear Ticket"; 0 when there is none
HasTicketLabel(ws, row, col) ==
    LET v == CellValue(ws, row, col)
    IN  Truthy(v) /\ Contains(StrOf(v), LinearTicketLabel)

FindHeaderRow(ws) ==
    LET last_row == max_row(ws)
        scanned == 1..((IF HeaderScanLimit < last_row + 1
                        THEN HeaderScanLimit ELSE last_row + 1) - 1)
        hits == {r \in scanned : HasTicketLabel(ws, r, 7) \/ HasTicketLabel(ws, r, 6)}
    IN  IF hits = {} THEN 0 ELSE SetMin(hits)

FindTicketCol(ws, header_row) ==
    IF HasTicketLabel(ws, header_row, 7) THEN 7 ELSE 6

\* lines 679-688: the first row above the header row with a cell equal to
\* "Capacity" in columns F..I; 0 when there is none
FindCapacityHeaderRow(ws, header_row) ==
    LET hits == {r \in 1..(header_row - 1) :
                    \E check_col \in 6..9 :
                        LET v == CellValue(ws, r, check_col)
                        IN  Truthy(v) /\ Strip(StrOf(v)) = CapacityLabel}
    IN  IF hits = {} THEN 0 ELSE SetMin(hits)

\* lines 693-719: the week index of the date in a cell of the date header
\* row, or -1 when the column is skipped.  A text cell goes through
\* strptime("%m/%d/%Y"), which raises on every text that is not month/day;
\* no month/day text occurs in the sheets modelled.
WeekIndexOfColumn(ws, date_header_row, col, start_date) ==
    LET v == CellValue(ws, date_header_row, col)
    IN  IF Truthy(v) /\ v.k = "date"
        THEN LET week_idx == DaysBetween(v.n, start_date) \div DaysPerWeek
             IN  IF week_idx >= 0 THEN week_idx ELSE -1
        ELSE -1

\* week_col_map: week index -> the last column that maps to it
WeekColMap(ws, date_header_row, week_start_col, start_date) ==
    LET cols == week_start_col..max_column(ws)
        idxs == {WeekIndexOfColumn(ws, date_header_row, c, start_date) : c \in cols}
                    \ {-1}
    IN  [w \in idxs |->
            SetMax({c \in cols :
                       WeekIndexOfColumn(ws, date_header_row, c, start_date) = w})]

\* lines 722-742, the assignee dictionary in insertion order: a sequence of
\* <<url, assignee>>, a url keeping the place of its first row and the value
\* of its last
RECURSIVE AssigneeData(_, _, _, _, _)
AssigneeData(ws, row, last_row, ticket_col, acc) ==
    IF row > last_row THEN acc
    ELSE LET url == CellValue(ws, row, ticket_col)
             assignee_val == CellValue(ws, row, ticket_col + 1)
             key == StrOf(url)
             at == {i \in 1..Len(acc) : acc[i][1] = key}
             acc2 == IF ~Truthy(url) \/ ~Truthy(assignee_val) THEN acc
                     ELSE IF at = {} THEN Append(acc, << key, StrOf(assignee_val) >>)
                     ELSE [acc EXCEPT ![SetMin(at)] = << key, StrOf(assignee_val) >>]
         IN  AssigneeData(ws, row + 1, last_row, ticket_col, acc2)

\* a slip: a value of zero is stored as well
StoringRows_ZeroStored(ws, rows, ticket_col, col, url) ==
    {r \in rows :
        /\ Truthy(CellValue(ws, r, ticket_col))
        /\ StrOf(CellValue(ws, r, ticket_col)) = url
        /\ LET cell_val == CellValue(ws, r, col)
               val == ParseFloat(cell_val)
           IN  /\ cell_val.k # "none"
               /\ cell_val # TextVal(<<>>)
               /\ val.ok
               /\ val.n >= 0}

\* lines 732-742: the rows that store a value under (url, week_idx)
StoringRows(ws, rows, ticket_col, col, url) ==
    {r \in rows :
        /\ Truthy(CellValue(ws, r, ticket_col))
        /\ StrOf(CellValue(ws, r, ticket_col)) = url
        /\ LET cell_val == CellValue(ws, r, col)
               val == ParseFloat(cell_val)
           IN  /\ cell_val.k # "none"
               /\ cell_val # TextVal(<<>>)
               /\ val.ok
               /\ val.n > 0}

CapacityData(ws, rows, ticket_col, week_col_map) ==
    LET urls == {StrOf(CellValue(ws, r, ticket_col)) :
                     r \in {q \in rows : Truthy(CellValue(ws, q, ticket_col))}}
        keys == {k \in urls \X DOMAIN week_col_map :
                    StoringRows(ws, rows, ticket_col, week_col_map[k[2]], k[1]) # {}}
    IN  [k \in keys |->
            ParseFloat(CellValue(ws,
                SetMax(StoringRows(ws, rows, ticket_col, week_col_map[k[2]], k[1])),
                week_col_map[k[2]])).n]

NoExistingData == [capacity |-> << >>, assignees |-> << >>, num_weeks |-> 0]

read_existing_capacity_data(ws, start_date) ==
    LET header_row == FindHeaderRow(ws)
        linear_ticket_col == FindTicketCol(ws, header_row)
        week_start_col == linear_ticket_col + 2
        capacity_header_row == FindCapacityHeaderRow(ws, header_row)
        date_header_row == IF capacity_header_row # 0
                           THEN capacity_header_row ELSE header_row
        week_col_map == WeekColMap(ws, date_header_row, week_start_col, start_date)
        max_week_idx == IF DOMAIN week_col_map = {} THEN 0
                        ELSE SetMax(DOMAIN week_col_map)
        rows == (header_row + 1)..max_row(ws)
    IN  IF header_row = 0 THEN NoExistingData
        ELSE [capacity  |-> CapacityData(ws, rows, linear_ticket_col, week_col_map),
              assignees |-> AssigneeData(ws, header_row + 1, max_row(ws),
                                         linear_ticket_col, <<>>),
              num_weeks |-> max_week_idx + 1]

(***************************************************************************)
(* populate_sheet_refresh (lines 355-631) and refresh_excel (316-352).     *)
(***************************************************************************)
\* existing_assignees.get(url, "")
ExistingAssignee(existing_assignees, url) ==
    LET at == {i \in 1..Len(existing_assignees) : existing_assignees[i][1] = url}
    IN  IF at = {} THEN <<>> ELSE existing_assignees[SetMin(at)][2]

\* lines 385-390: the assignees of the issues, then each assignee of the
\* existing sheet that is not yet in the list
RECURSIVE WithExistingAssignees(_, _)
WithExistingAssignees(assignees, existing_assignees) ==
    IF existing_assignees = <<>> THEN assignees
    ELSE LET existing_assignee == existing_assignees[1][2]
             listed == \E i \in 1..Len(assignees) : assignees[i] = existing_assignee
         IN  WithExistingAssignees(
                 IF existing_assignee # <<>> /\ ~listed
                 THEN Append(assignees, existing_assignee) ELSE assignees,
                 Tail(existing_assignees))

\* lines 447-474: the header row of populate_sheet_refresh
RefreshHeaderCells(header_row, week_dates) ==
    LET headers == << LinearVsEstimatedLabel, InitiativeLabel, ProjectsLabel,
                      IssueLabel, EstimateLabel, DescriptionLabel,
                      LinearTicketLabel, AssignedToLabel >>
    IN  [p \in {<<header_row, 8 + i>> : i \in 1..Len(week_dates)} |->
            Cell(DateVal(week_dates[p[2] - 8]), "yellow")]
        @@ [p \in {<<header_row, c>> : c \in 1..Len(headers)} |->
               Cell(TextVal(headers[p[2]]), "yellow")]

\* lines 554-581: the placement computed from the fetched issue:
\* [placed, week_idx, v, fill, source]
NoLinearPlacement ==
    [placed |-> FALSE, week_idx |-> 0, v |-> NoneVal, fill |-> "none", source |-> "none"]

\* a slip: a null estimate of an issue with a cycle is placed as 0
LinearPlacement_NullAsZero(issue, start_date, num_weeks) ==
    IF issue.cycle.k # "empty"
    THEN [placed |-> TRUE,
          week_idx |-> ClampWeek(get_week_index(issue.cycle, start_date, num_weeks),
                                 num_weeks),
          v |-> NumVal(IF issue.estimate.k = "none" THEN 0 ELSE issue.estimate.n),
          fill |-> "green", source |-> "Linear"]
    ELSE NoLinearPlacement

LinearPlacement(issue, start_date, num_weeks) ==
    IF issue.cycle.k # "empty" /\ issue.estimate.k # "none"
    THEN [placed |-> TRUE,
          week_idx |-> ClampWeek(get_week_index(issue.cycle, start_date, num_weeks),
                                 num_weeks),
          v |-> NumVal(issue.estimate.n), fill |-> "green", source |-> "Linear"]
    ELSE IF issue.estimate.k # "none" /\ issue.status_type \notin INACTIVE_STATUS_TYPES
    THEN [placed |-> TRUE,
          week_idx |-> IF issue.updatedAt.k # "empty"
                       THEN ClampWeek(get_week_index(issue.updatedAt, start_date,
                                                     num_weeks), num_weeks)
                       ELSE num_weeks - 1,
          v |-> TextVal(Digits(issue.estimate.n) \o NoCycleSuffix),
          fill |-> "yellow", source |-> "Estimated"]
    ELSE NoLinearPlacement

\* lines 585-593: the weeks whose value is carried over from the existing sheet
CarriedWeeks(issue, start_date, num_weeks, existing_capacity) ==
    IF LinearPlacement(issue, start_date, num_weeks).placed THEN {}
    ELSE {week_idx \in 0..(num_weeks - 1) :
             /\ << issue.url, week_idx >> \in DOMAIN existing_capacity
             /\ existing_capacity[<< issue.url, week_idx >>] > 0}

\* lines 547-593: the week cells of one issue row
RefreshPlacementCells(issue, row, start_date, num_weeks, existing_capacity) ==
    LET linear == LinearPlacement(issue, start_date, num_weeks)
    IN  [p \in {<<row, 9 + week_idx>> :
                    week_idx \in CarriedWeeks(issue, start_date, num_weeks,
                                              existing_capacity)} |->
            Cell(NumVal(existing_capacity[<< issue.url, p[2] - 9 >>]), "yellow")]
        @@ (IF linear.placed
            THEN Put(row, 9 + linear.week_idx, linear.v, linear.fill)
            ELSE EmptySheet)

\* lines 502-545: the descriptive columns of one issue row
RefreshIssueCells(entry, issue, row, existing_assignees) ==
    LET linear_has_assignee == issue.assignee # NoName
        linear_has_estimate == issue.estimate.k # "none"
        data_source == IF linear_has_assignee /\ linear_has_estimate
                       THEN LinearLabel ELSE EstimatedLabel
        assignee_name == IF linear_has_assignee
                         THEN format_name(issue.assignee, TRUE)
                         ELSE ExistingAssignee(existing_assignees, issue.url)
    IN  (IF assignee_name = <<>>
         THEN Put(row, 8, TextVal(NoAssigneeLabel), "red")
         ELSE Put(row, 8, TextVal(assignee_name), "none"))
        @@ Put(row, 7, TextVal(issue.url), "none")
        @@ Put(row, 6, TextVal(TruncatedDescription(issue.description)), "none")
        @@ (IF linear_has_estimate
            THEN Put(row, 5, NumVal(issue.estimate.n), "green") ELSE EmptySheet)
        @@ Put(row, 4, TextVal(issue.title), "none")
        @@ Put(row, 3, TextVal(entry.project_name), "none")
        @@ Put(row, 2, TextVal(entry.initiative_name), "none")
        @@ Put(row, 1, TextVal(data_source), "none")

RECURSIVE RefreshDataCells(_, _, _, _, _, _, _, _)
RefreshDataCells(plan, j, issues, data_start_row, start_date, num_weeks, existing_capacity, existing_assignees) ==
    IF j > Len(plan) THEN EmptySheet
    ELSE LET row == data_start_row + j - 1
             entry == plan[j]
         IN  (IF entry.idx = 0
              THEN SeparatorCells(row, 8 + num_weeks)
              ELSE RefreshPlacementCells(issues[entry.idx], row, start_date,
                                         num_weeks, existing_capacity)
                   @@ RefreshIssueCells(entry, issues[entry.idx], row,
                                        existing_assignees))
             @@ RefreshDataCells(plan, j + 1, issues, data_start_row, start_date,
                                 num_weeks, existing_capacity, existing_assignees)

\* column_sources[week_idx] after the data block is written
ColumnSources(issues, week_idx, start_date, num_weeks, existing_capacity) ==
    {LinearPlacement(issues[i], start_date, num_weeks).source :
        i \in {j \in 1..Len(issues) :
                  LET linear == LinearPlacement(issues[j], start_date, num_weeks)
                  IN  linear.placed /\ linear.week_idx = week_idx}}
    \cup {"Estimated" :
        i \in {j \in 1..Len(issues) :
                  week_idx \in CarriedWeeks(issues[j], start_date, num_weeks,
                                            existing_capacity)}}

\* a slip: a carried-over or no-cycle placement decides the label first
SourceRowCells_EstimationFirst(source_indicator_row, issues, start_date, num_weeks, existing_capacity) ==
    [p \in {<<source_indicator_row, 9 + week_idx>> : week_idx \in 0..(num_weeks - 1)} |->
        LET sources == ColumnSources(issues, p[2] - 9, start_date, num_weeks,
                                     existing_capacity)
        IN  Cell(TextVal(IF "Estimated" \in sources THEN EstimationLabel
                         ELSE IF "Linear" \in sources THEN LinearLabel
                         ELSE <<>>), "none")]
    @@ Put(source_indicator_row, 8, TextVal(DataSourceLabel), "none")

\* lines 607-623: the data source row
SourceRowCells(source_indicator_row, issues, start_date, num_weeks, existing_capacity) ==
    [p \in {<<source_indicator_row, 9 + week_idx>> : week_idx \in 0..(num_weeks - 1)} |->
        LET sources == ColumnSources(issues, p[2] - 9, start_date, num_weeks,
                                     existing_capacity)
        IN  Cell(TextVal(IF "Linear" \in sources THEN LinearLabel
                         ELSE IF "Estimated" \in sources THEN EstimationLabel
                         ELSE <<>>), "none")]
    @@ Put(source_indicator_row, 8, TextVal(DataSourceLabel), "none")

populate_sheet_refresh(issues, start_date, num_weeks, existing_capacity, existing_assignees) ==
    LET assignees == WithExistingAssignees(extract_unique_assignees(issues),
                                           existing_assignees)
        week_dates == generate_week_dates(start_date, num_weeks)
        source_indicator_row == 1
        capacity_header_row == 2
        capacity_start_row == 3
        header_row == capacity_start_row + Len(assignees) + 1
        data_start_row == header_row + 1
        estimated_last_row == data_start_row + Len(issues)
        plan == RowPlan(issues)
        current_row == data_start_row + Len(plan)
        actual_last_row == current_row - 1
    IN  WriteAll(<<
            CapacityHeaderCells(capacity_header_row, 8, week_dates),
            CapacityRowCells(assignees, capacity_start_row, 8, num_weeks,
                             data_start_row, estimated_last_row),
            RefreshHeaderCells(header_row, week_dates),
            RefreshDataCells(plan, 1, issues, data_start_row, start_date, num_weeks,
                             existing_capacity, existing_assignees),
            CapacityFormulaCells(assignees, capacity_start_row, 8, num_weeks,
                                 data_start_row, actual_last_row),
            SourceRowCells(source_indicator_row, issues, start_date, num_weeks,
                           existing_capacity) >>)

\* refresh_excel, lines 332-337: the week count the sheet is rebuilt with
RefreshNumWeeks(existing, num_weeks) ==
    IF existing.num_weeks > num_weeks THEN existing.num_weeks ELSE num_weeks

(***************************************************************************)
(* The inputs the model draws from.                                        *)
(***************************************************************************)
\* the planning window starts on day 14 of the model's clock
StartDate == 14 * HoursPerDay

Day(d) == StartDate + d * HoursPerDay

AliceMail == << "a", "l", "i", "c", "e", "@", "c", "o", ".", "c", "o", "m" >>

BobMail == << "b", "o", "b", ".", "s", "t", "o", "n", "e", "@", "c", "o", ".", "c", "o", "m" >>

BobRay == << "B", "o", "b", " ", "R", "a", "y" >>

CapacityMail == << "c", "a", "p", "a", "c", "i", "t", "y", "@", "c", "o", ".", "c", "o", "m" >>

DanaName == << "D", "a", "n", "a" >>

AlphaName == << "A", "l", "p", "h", "a" >>

BetaName == << "B", "e", "t", "a" >>

WebName == << "W", "e", "b" >>

ApiName == << "A", "p", "i" >>

Url(n) == << "u" >> \o Digits(n)

Issue(n, estimate, assignee, cycle, status_type, updatedAt, project) ==
    [url |-> Url(n), title |-> << "T" >> \o Digits(n), description |-> <<>>,
     estimate |-> estimate, assignee |-> assignee, cycle |-> cycle,
     status_type |-> status_type, updatedAt |-> updatedAt, project |-> project]

WebProject == Project(WebName, << AlphaName >>)

ApiProject == Project(ApiName, << BetaName, AlphaName >>)

\* item A of the end-to-end scenario: estimate 3, alice@co.com, a cycle
\* that starts in week 2
IssueA == Issue(1, Estimate(3), AliceMail, Iso(Day(14)), "started",
                Iso(Day(15) + 5), WebProject)

\* item B of the end-to-end scenario: estimate 5, nobody, no cycle, backlog
IssueB == Issue(2, Estimate(5), NoName, NoStamp, "backlog", Iso(Day(3)), NoProject)

\* no cycle, started, last updated in week 1
IssueNoCycle == Issue(3, Estimate(2), BobRay, NoStamp, "started",
                      Iso(Day(8) + 5), WebProject)

\* no estimate, an assignee and a cycle
IssueNoEstimate == Issue(4, NoEstimate, BobMail, Iso(Day(0)), "started",
                         Iso(Day(1)), ApiProject)

\* an estimate and a cycle, nobody assigned
IssueUnassigned == Issue(5, Estimate(4), NoName, Iso(Day(7)), "unstarted",
                         Iso(Day(2)), ApiProject)

\* a cycle whose start is not an ISO timestamp
IssueBadCycle == Issue(6, Estimate(1), AliceMail, BadStamp, "started",
                       Iso(Day(2)), NoProject)

\* no cycle, started, never updated
IssueNoUpdate == Issue(7, Estimate(2), BobMail, NoStamp, "started", NoStamp,
                       Project(ApiName, <<>>))

\* an estimate of zero
IssueZero == Issue(8, Estimate(0), AliceMail, Iso(Day(7)), "completed",
                   Iso(Day(9)), WebProject)

\* an assignee whose display name is "Capacity"
IssueCapacity == Issue(9, Estimate(3), CapacityMail, Iso(Day(7)), "started",
                       Iso(Day(9)), WebProject)

\* a cycle that starts an hour before the window
IssueBefore == Issue(10, Estimate(6), AliceMail, Iso(Day(0) - 1), "started",
                     Iso(Day(1)), ApiProject)

\* a cycle that starts after the window
IssueAfter == Issue(11, Estimate(7), BobMail, Iso(Day(40) + 3), "triage",
                    Iso(Day(1)), NoProject)

Catalogue ==
    << IssueA, IssueB, IssueNoCycle, IssueNoEstimate, IssueUnassigned,
       IssueBadCycle, IssueNoUpdate, IssueZero, IssueCapacity, IssueBefore,
       IssueAfter >>

\* the issues a refreshed sheet is built from
\* no estimate, nobody assigned, no cycle, in the backlog
IssueBare == Issue(12, NoEstimate, NoName, NoStamp, "backlog", Iso(Day(2)), NoProject)

RefreshCatalogue == << IssueA, IssueNoCycle, IssueNoEstimate, IssueBare >>

\* the issue lists of at most MaxItems issues of a catalogue, each in the
\* order of the catalogue
RECURSIVE PickFrom(_, _)
PickFrom(catalogue, chosen) ==
    IF catalogue = <<>> THEN <<>>
    ELSE (IF 1 \in chosen THEN << catalogue[1] >> ELSE <<>>)
         \o PickFrom(Tail(catalogue), {i - 1 : i \in chosen \ {1}})

IssueLists(catalogue) ==
    {PickFrom(catalogue, chosen) :
        chosen \in {c \in SUBSET (1..Len(catalogue)) : Cardinality(c) <= MaxItems}}

\* the cycle boundaries a sheet is populated with (None: no boundary)
CycleBoundaries == {NoStamp, Iso(Day(7)), Iso(Day(14))}

\* what a person types into a week cell of a saved sheet: a number, or the
\* numeral 7 in a cell kept as text
ManualValues == {NumVal(9), NumVal(0), NumVal(-1), TextVal(<< "7" >>)}

(***************************************************************************)
(* The state machine: a workbook with one sheet, written by create_excel   *)
(* (populate_sheet), edited by hand, read back and rebuilt by              *)
(* refresh_excel.                                                          *)
(***************************************************************************)
VARIABLES
    issues,       \* the issue list fetched for the run
    start_date,   \* --start-date, in hours
    num_weeks,    \* --weeks
    cycle_start,  \* the cycle boundary populate_sheet was given
    ws,           \* the sheet of the saved workbook
    last_op,      \* the last operation on the sheet
    existing,     \* what read_existing_capacity_data returned on this sheet
    weeks_used,   \* the week count the sheet was last built with
    edits,        \* manual edits made so far
    date_text,    \* a timestamp text get_week_index is called with
    name,         \* a raw name format_name is called with
    first_only,   \* the first_only argument of format_name
    returned,     \* what the last call of a helper returned
    change_log,   \* the history entries of an issue, as stored
    target_date,  \* the date the assignee of the issue is asked for
    wb,           \* the workbook file refresh_excel works on: sheets, active tab
    loaded,       \* the workbook as refresh_excel last loaded it
    served,       \* per issue id, the responses the upstream gives page by page
    futures,      \* per issue id, the future of its history fetch
    result,       \* the dict fetch_issues_history_bulk builds
    call,         \* where the call of fetch_issues_history_bulk is
    argv,         \* the options main is called with
    invoked,      \* the fetches and generators main has called, in order
    exit_status   \* the exit status of main, -1 while it has not ended

\* the bulk fetch of the issue histories
fetch_vars == << served, futures, result, call >>

\* fetch_issues_history_bulk is not called
NoFetch ==
    /\ served = <<>>
    /\ futures = <<>>
    /\ result = << >>
    /\ call = [at |-> "idle", exc |-> "none"]

\* the run of the command line
main_vars == << argv, invoked, exit_status >>

\* main is not called
NoMain ==
    /\ argv = << >>
    /\ invoked = <<>>
    /\ exit_status = -1

\* a workbook: its sheets in tab order and _active_sheet_index
Workbook(sheets, active) == [sheets |-> sheets, active |-> active]

\* a workbook without a sheet
NoWorkbook == Workbook(<<>>, 0)

vars == << issues, start_date, num_weeks, cycle_start, ws, last_op, existing,
           weeks_used, edits, date_text, name, first_only, returned,
           change_log, target_date, wb, loaded, served, futures, result, call,
           argv, invoked, exit_status >>

\* the state outside the sheet and the helper calls
run_vars == << change_log, target_date, wb, loaded, fetch_vars, main_vars >>

\* nothing of it is in use
NoRun ==
    /\ change_log = <<>>
    /\ target_date = 0
    /\ wb = NoWorkbook
    /\ loaded = NoWorkbook
    /\ NoFetch
    /\ NoMain

\* the arguments and the result of the helper calls
calls == << date_text, name, first_only, returned, run_vars >>

\* no helper was called
NoCalls ==
    /\ date_text = <<>>
    /\ name = <<>>
    /\ first_only = TRUE
    /\ returned = <<>>
    /\ NoRun

InitWith(catalogue, week_counts) ==
    /\ issues \in IssueLists(catalogue)
    /\ start_date = StartDate
    /\ num_weeks \in week_counts
    /\ cycle_start = NoStamp
    /\ ws = EmptySheet
    /\ last_op = "init"
    /\ existing = NoExistingData
    /\ weeks_used = 0
    /\ edits = 0
    /\ NoCalls

Init == InitWith(Catalogue, 1..MaxWeeks)

\* create_excel (lines 297-313), and populate_sheet with a cycle boundary
PopulateSheet ==
    \E boundary \in CycleBoundaries :
        /\ ws' = populate_sheet(issues, start_date, num_weeks, boundary)
        /\ cycle_start' = boundary
        /\ last_op' = "populate"
        /\ weeks_used' = num_weeks
        /\ existing' = NoExistingData
        /\ UNCHANGED << calls, issues, start_date, num_weeks, edits >>

\* load_workbook and read_existing_capacity_data (lines 329-332) on the
\* sheet as saved
ReadBack ==
    /\ last_op \in {"populate", "refresh"}
    /\ existing' = read_existing_capacity_data(ws, start_date)
    /\ last_op' = "read"
    /\ UNCHANGED << calls, issues, start_date, num_weeks, cycle_start, ws, weeks_used, edits >>

Next == PopulateSheet \/ ReadBack

Spec == Init /\ [][Next]_vars

(***************************************************************************)
(* The refresh machine: a sheet is created, edited by hand and refreshed.  *)
(***************************************************************************)
\* the sheet is created and refreshed with MaxRefreshWeeks week columns
InitRefresh == InitWith(RefreshCatalogue, {MaxRefreshWeeks})

\* create_excel (lines 297-313)
CreateExcel ==
    /\ ws' = populate_sheet(issues, start_date, num_weeks, NoStamp)
    /\ cycle_start' = NoStamp
    /\ last_op' = "populate"
    /\ weeks_used' = num_weeks
    /\ existing' = NoExistingData
    /\ UNCHANGED << calls, issues, start_date, num_weeks, edits >>

\* the rows of the saved sheet that show an issue, and its week columns
IssueRowsOf(sheet) ==
    LET header_row == FindHeaderRow(sheet)
        ticket_col == FindTicketCol(sheet, header_row)
    IN  IF header_row = 0 THEN {}
        ELSE {r \in (header_row + 1)..max_row(sheet) :
                 Truthy(CellValue(sheet, r, ticket_col))}

TicketColOf(sheet) == FindTicketCol(sheet, FindHeaderRow(sheet))

WeekColsOf(sheet, weeks) == (TicketColOf(sheet) + 2)..(TicketColOf(sheet) + 1 + weeks)

\* a person types a value into a week cell of an issue row, or a name into
\* its assignee cell, and saves the workbook
ManualEdit ==
    /\ last_op \in {"populate", "refresh", "edit"}
    /\ edits < MaxEdits
    /\ LET rows == IssueRowsOf(ws)
           week_cols == WeekColsOf(ws, weeks_used)
           assignee_col == TicketColOf(ws) + 1
       IN  \E r \in rows :
               \/ \E c \in week_cols, v \in ManualValues :
                      ws' = Put(r, c, v, CellFill(ws, r, c)) @@ ws
               \/ ws' = Put(r, assignee_col, TextVal(DanaName),
                            CellFill(ws, r, assignee_col)) @@ ws
    /\ last_op' = "edit"
    /\ edits' = edits + 1
    /\ UNCHANGED << calls, issues, start_date, num_weeks, cycle_start, existing,
                    weeks_used >>

\* refresh_excel (lines 316-352): the saved sheet is read, removed and
\* rebuilt from the fetched issues and what was read
RefreshExcel ==
    /\ last_op # "init"
    /\ \E read \in {read_existing_capacity_data(ws, start_date)} :
           LET weeks == RefreshNumWeeks(read, num_weeks)
           IN  /\ existing' = read
               /\ ws' = populate_sheet_refresh(issues, start_date, weeks,
                                               read.capacity, read.assignees)
               /\ weeks_used' = weeks
    /\ last_op' = "refresh"
    /\ UNCHANGED << calls, issues, start_date, num_weeks, cycle_start, edits >>

NextRefresh == CreateExcel \/ ManualEdit \/ RefreshExcel

SpecRefresh == InitRefresh /\ [][NextRefresh]_vars

(***************************************************************************)
(* Reading a sheet the way its reader does: where the issues and the       *)
(* capacity rows are, and what is placed in the week columns.              *)
(***************************************************************************)
AssigneeColOf(sheet) == TicketColOf(sheet) + 1

FirstWeekColOf(sheet) == TicketColOf(sheet) + 2

\* the issue is listed in the data block
Listed(sheet, issue) ==
    \E r \in IssueRowsOf(sheet) :
        CellValue(sheet, r, TicketColOf(sheet)) = TextVal(issue.url)

RowOfIssue(sheet, issue) ==
    CHOOSE r \in IssueRowsOf(sheet) :
        CellValue(sheet, r, TicketColOf(sheet)) = TextVal(issue.url)

\* the value in week column week_idx of the issue's row
WeekValue(sheet, issue, week_idx) ==
    CellValue(sheet, RowOfIssue(sheet, issue), FirstWeekColOf(sheet) + week_idx)

\* the week indexes at which the issue's row holds a value
PlacedWeeks(sheet, issue, weeks) ==
    LET row == RowOfIssue(sheet, issue)
        first_col == FirstWeekColOf(sheet)
    IN  {week_idx \in 0..(weeks - 1) :
            CellValue(sheet, row, first_col + week_idx).k # "none"}

\* the assignee shown in the issue's row
ShownAssignee(sheet, issue) ==
    CellValue(sheet, RowOfIssue(sheet, issue), AssigneeColOf(sheet))

\* the rows of the capacity summary block
CapacityRowsOf(sheet) ==
    {r \in 1..(FindHeaderRow(sheet) - 1) :
        CellValue(sheet, r, FirstWeekColOf(sheet)).k = "formula"}

RECURSIVE SumEstimates(_, _)
SumEstimates(list, indexes) ==
    IF indexes = {} THEN 0
    ELSE LET i == CHOOSE x \in indexes : TRUE
         IN  list[i].estimate.n + SumEstimates(list, indexes \ {i})

\* sum(estimate for item in items if item.assignee == a and item.week == w)
DirectSum(sheet, list, assignee, week_idx, weeks) ==
    SumEstimates(list,
        {i \in 1..Len(list) :
            /\ list[i].estimate.k # "none"
            /\ ShownAssignee(sheet, list[i]) = assignee
            /\ week_idx \in PlacedWeeks(sheet, list[i], weeks)})

(***************************************************************************)
(* C1.  For every capacity row (assignee a) and every week column w of a   *)
(* grid produced by populate_sheet, the aggregate cell (a, w) evaluates to *)
(* the sum of the estimates of the items whose displayed assignee is a and *)
(* whose placed week index is w.  The code breaks it: an estimate placed   *)
(* by the no-cycle fallback is written as a text, which SUMIF skips.       *)
(***************************************************************************)
C1_AggregateIsDirectSum ==
    last_op = "populate" =>
        \A r \in CapacityRowsOf(ws), week_idx \in 0..(weeks_used - 1) :
            SumIf(ws, CellValue(ws, r, FirstWeekColOf(ws) + week_idx))
                = DirectSum(ws, issues, CellValue(ws, r, AssigneeColOf(ws)),
                            week_idx, weeks_used)

(***************************************************************************)
(* C2.  End to end: populating a 4-week grid from item A (estimate 3,      *)
(* alice@co.com, cycle starting in week 2) and item B (estimate 5, nobody, *)
(* no cycle, backlog) gives exactly one capacity row, labelled "Alice",    *)
(* whose week-2 aggregate is 3, and lists B with no value in any week      *)
(* column.                                                                 *)
(***************************************************************************)
AliceName == << "A", "l", "i", "c", "e" >>

EndToEndRun ==
    /\ last_op = "populate"
    /\ issues = << IssueA, IssueB >>
    /\ num_weeks = 4
    /\ cycle_start = NoStamp

\* C2: the run above gives one capacity row, "Alice", whose week-2 aggregate
\* is 3, and lists B with no value in any week column
C2_EndToEnd ==
    EndToEndRun =>
        /\ Cardinality(CapacityRowsOf(ws)) = 1
        /\ \A r \in CapacityRowsOf(ws) :
               /\ CellValue(ws, r, AssigneeColOf(ws)) = TextVal(AliceName)
               /\ SumIf(ws, CellValue(ws, r, FirstWeekColOf(ws) + 2)) = 3
        /\ \A r \in 1..(FindHeaderRow(ws) - 1) :
               Truthy(CellValue(ws, r, AssigneeColOf(ws)))
                   => r \in CapacityRowsOf(ws) \/ r = 1
        /\ Listed(ws, IssueB)
        /\ PlacedWeeks(ws, IssueB, num_weeks) = {}

C2_Witness ==
    /\ EndToEndRun
    /\ Listed(ws, IssueA)
    /\ WeekValue(ws, IssueA, 2) = NumVal(3)

(***************************************************************************)
(* C3.  An issue whose estimate is null: what its row holds in the week    *)
(* columns after populate_sheet and after populate_sheet_refresh.          *)
(***************************************************************************)
NullEstimateIssues == {i \in 1..Len(issues) : issues[i].estimate.k = "none"}

WrittenPlacements ==
    LET written(i) == PlacementCells(issues[i], 0, start_date, weeks_used, cycle_start)
        keys == {k \in {issues[i].url : i \in 1..Len(issues)} \X (0..(weeks_used - 1)) :
                    \E i \in 1..Len(issues) :
                        /\ issues[i].url = k[1]
                        /\ << 0, 8 + k[2] >> \in DOMAIN written(i)
                        /\ written(i)[<< 0, 8 + k[2] >>].v.k = "num"
                        /\ written(i)[<< 0, 8 + k[2] >>].v.n > 0}
    IN  [k \in keys |->
            LET i == CHOOSE j \in 1..Len(issues) : issues[j].url = k[1]
            IN  written(i)[<< 0, 8 + k[2] >>].v.n]

\* the assignee string that populate_sheet wrote in the row of an issue
WrittenAssignee(issue) ==
    IF format_name(issue.assignee, TRUE) = <<>> THEN NoAssigneeLabel
    ELSE format_name(issue.assignee, TRUE)

\* C4 as stated: reading back a sheet written by populate_sheet recovers
\* exactly the placements written with a positive value and exactly the
\* assignee string written for each url, and no entry for a zero placement
C4_RoundTrip ==
    last_op = "read" =>
        /\ existing.capacity = WrittenPlacements
        /\ {existing.assignees[j][1] : j \in 1..Len(existing.assignees)}
               = {issues[i].url : i \in 1..Len(issues)}
        /\ \A i \in 1..Len(issues) :
               ExistingAssignee(existing.assignees, issues[i].url)
                   = WrittenAssignee(issues[i])

(***************************************************************************)
(* C5.  The merge policy of populate_sheet_refresh.                        *)
(***************************************************************************)
\* the week indexes of the issue's row that hold a value carried over from
\* the existing sheet: a number on a yellow fill
CarriedPlacements(sheet, issue, weeks) ==
    LET row == RowOfIssue(sheet, issue)
        first_col == FirstWeekColOf(sheet)
    IN  {week_idx \in 0..(weeks - 1) :
            /\ CellValue(sheet, row, first_col + week_idx).k = "num"
            /\ CellFill(sheet, row, first_col + week_idx) = "yellow"}

\* C5 as stated: in a refreshed sheet a carried placement appears in the row
\* of an issue only if the fetched issue has no assignee; the row of a
\* fetched issue with an assignee shows that assignee and its only weekly
\* placement is the one computed from the fetched issue
C5_CarriedOnlyWithoutAssignee ==
    last_op = "refresh" =>
        \A i \in 1..Len(issues) :
            /\ CarriedPlacements(ws, issues[i], weeks_used) # {}
                   => issues[i].assignee = NoName
            /\ issues[i].assignee # NoName =>
                   /\ ShownAssignee(ws, issues[i])
                          = TextVal(format_name(issues[i].assignee, TRUE))
                   /\ \A week_idx \in PlacedWeeks(ws, issues[i], weeks_used) :
                          LET linear == LinearPlacement(issues[i], start_date, weeks_used)
                          IN  /\ linear.placed
                              /\ linear.week_idx = week_idx
                              /\ WeekValue(ws, issues[i], week_idx) = linear.v

(***************************************************************************)
(* C6.  What read_existing_capacity_data records, and what                 *)
(* populate_sheet_refresh carries over.                                    *)
(***************************************************************************)
\* the cell holds a number greater than zero
PositiveNumber(v) == v.k = "num" /\ v.n > 0

\* the cell holds a text that float() converts to a number greater than zero
PositiveNumeral(v) == v.k = "str" /\ ParseFloat(v).ok /\ ParseFloat(v).n > 0

\* the (url, week index) pairs of the sheet whose week cell satisfies holds
RecordableKeys(sheet, weeks, holds(_)) ==
    LET rows == IssueRowsOf(sheet)
        ticket_col == TicketColOf(sheet)
    IN  {k \in {StrOf(CellValue(sheet, r, ticket_col)) : r \in rows}
                   \X (0..(weeks - 1)) :
            \E r \in rows :
                /\ CellValue(sheet, r, ticket_col) = TextVal(k[1])
                /\ holds(CellValue(sheet, r, ticket_col + 2 + k[2]))}

\* C6 as stated: the reader records a (url, week index) entry exactly for
\* the week cells that hold a strictly positive number -- zero, blank,
\* negative and non-numeric cells give no entry -- and a refreshed sheet
\* holds no carried value that is not strictly positive
C6_OnlyPositiveNumbers ==
    last_op # "init" =>
        /\ DOMAIN read_existing_capacity_data(ws, start_date).capacity
               = RecordableKeys(ws, weeks_used, PositiveNumber)
        /\ last_op = "refresh" =>
               \A i \in 1..Len(issues) :
                   \A week_idx \in CarriedPlacements(ws, issues[i], weeks_used) :
                       WeekValue(ws, issues[i], week_idx).n > 0

\* C6 amended: the reader records an entry exactly for the week cells whose
\* value float() converts to a strictly positive number -- a number, or a
\* text that is a numeral -- every recorded value is strictly positive, and
\* a refreshed sheet holds no carried value that is not strictly positive
C6_OnlyPositiveConvertible ==
    last_op # "init" =>
        LET capacity == read_existing_capacity_data(ws, start_date).capacity
            convertible(v) == PositiveNumber(v) \/ PositiveNumeral(v)
        IN  /\ DOMAIN capacity = RecordableKeys(ws, weeks_used, convertible)
            /\ \A k \in DOMAIN capacity : capacity[k] > 0
            /\ last_op = "refresh" =>
                   \A i \in 1..Len(issues) :
                       \A week_idx \in CarriedPlacements(ws, issues[i], weeks_used) :
                           /\ WeekValue(ws, issues[i], week_idx).n > 0
                           /\ WeekValue(ws, issues[i], week_idx).n
                                  = existing.capacity[<< issues[i].url, week_idx >>]

\* a refreshed sheet that carries a value read from a cell holding a numeral
\* as text
C6_Witness ==
    /\ last_op = "refresh"
    /\ \E i \in 1..Len(issues) :
           /\ CarriedPlacements(ws, issues[i], weeks_used) # {}
           /\ \E week_idx \in CarriedPlacements(ws, issues[i], weeks_used) :
                  WeekValue(ws, issues[i], week_idx) = NumVal(7)

(***************************************************************************)
(* C7.  populate_sheet and an issue that nobody is assigned to.            *)
(***************************************************************************)
\* the issues with an estimate and a cycle, and no assignee
UnassignedWithCycle ==
    {i \in 1..Len(issues) : /\ issues[i].assignee = NoName
                            /\ issues[i].estimate.k # "none"
                            /\ issues[i].cycle.k # "empty"}

\* C7 as stated: populate_sheet gives an issue that has an estimate and a
\* cycle but no assignee no value in any week column
C7_NoAssigneeNoPlacement ==
    last_op = "populate" =>
        \A i \in UnassignedWithCycle : PlacedWeeks(ws, issues[i], weeks_used) = {}

\* C7 amended: populate_sheet places an issue whether or not it has an
\* assignee.  An unassigned issue with an estimate and a cycle that starts on
\* or before the boundary (if one is given) gets its estimate in exactly one
\* week column; its row shows "No assignee" on a red fill and no row of the
\* capacity summary has that label, so the value enters no aggregate.
C7_UnassignedStillPlaced ==
    last_op = "populate" =>
        \A i \in UnassignedWithCycle :
            (cycle_start.k = "empty" \/ StampLeq(issues[i].cycle, cycle_start)) =>
                /\ Cardinality(PlacedWeeks(ws, issues[i], weeks_used)) = 1
                /\ \A week_idx \in PlacedWeeks(ws, issues[i], weeks_used) :
                       WeekValue(ws, issues[i], week_idx) = NumVal(issues[i].estimate.n)
                /\ ShownAssignee(ws, issues[i]) = TextVal(NoAssigneeLabel)
                /\ CellFill(ws, RowOfIssue(ws, issues[i]), AssigneeColOf(ws)) = "red"
                /\ \A r \in CapacityRowsOf(ws) :
                       CellValue(ws, r, AssigneeColOf(ws)) # TextVal(NoAssigneeLabel)

\* a populated sheet in which an unassigned issue has a week value, next to
\* a capacity row for somebody else
C7_Witness ==
    /\ last_op = "populate"
    /\ CapacityRowsOf(ws) # {}
    /\ \E i \in UnassignedWithCycle : PlacedWeeks(ws, issues[i], weeks_used) # {}

(***************************************************************************)
(* C8.  populate_sheet and the date an issue is placed by.                 *)
(***************************************************************************)
NoCycleInactive(issue) ==
    issue.cycle.k = "empty" /\ issue.status_type \in INACTIVE_STATUS_TYPES

\* C8 as stated: an issue with no cycle in backlog/triage/canceled state, an
\* issue whose cycle start string is unparseable, and an issue with no cycle
\* and no last-updated timestamp each get no value in any week column
C8_OnlyResolvableDate ==
    last_op = "populate" =>
        \A i \in 1..Len(issues) :
            (\/ NoCycleInactive(issues[i])
             \/ issues[i].cycle.k = "bad"
             \/ (issues[i].cycle.k = "empty" /\ issues[i].updatedAt.k = "empty"))
                => PlacedWeeks(ws, issues[i], weeks_used) = {}

(***************************************************************************)
(* C9.  populate_sheet with a cycle boundary.                              *)
(***************************************************************************)
\* the date an issue is placed by: its cycle start, or its last-updated
\* timestamp when it has no cycle
EventDate(issue) == IF issue.cycle.k # "empty" THEN issue.cycle ELSE issue.updatedAt

\* C9 as stated: with a cycle boundary every issue is listed in the data
\* block, and an issue holds a week value only if its event date is on or
\* before the boundary
C9_PlacedOnlyUpToBoundary ==
    (last_op = "populate" /\ cycle_start.k # "empty") =>
        \A i \in 1..Len(issues) :
            /\ Listed(ws, issues[i])
            /\ PlacedWeeks(ws, issues[i], weeks_used) # {}
                   => StampLeq(EventDate(issues[i]), cycle_start)

(***************************************************************************)
(* C10.  The gray separator rows of the data block.                        *)
(***************************************************************************)
\* the rows of the data block, below the header row
DataBlockRows(sheet) ==
    IF FindHeaderRow(sheet) = 0 THEN {}
    ELSE (FindHeaderRow(sheet) + 1)..max_row(sheet)

\* a separator row: gray in column A, and no ticket in it
SeparatorRowsOf(sheet) ==
    {r \in DataBlockRows(sheet) \ IssueRowsOf(sheet) : CellFill(sheet, r, 1) = "gray"}

\* the initiative name an issue row shows, five columns before the ticket
InitiativeShown(sheet, r) == CellValue(sheet, r, TicketColOf(sheet) - 5)

DistinctInitiatives == {GroupKey(issues[i])[1] : i \in 1..Len(issues)}

\* C10: in a sheet written by populate_sheet or populate_sheet_refresh the
\* data block holds issue rows and separator rows only; the first row of the
\* block is not a separator; every separator stands between two issue rows
\* of different initiatives; two issue rows that follow one another show one
\* initiative; and the number of separators is the number of distinct
\* initiative names minus one, zero when there are no issues
C10_SeparatorPerInitiativeChange ==
    last_op \in {"populate", "refresh"} =>
        /\ DataBlockRows(ws) = IssueRowsOf(ws) \cup SeparatorRowsOf(ws)
        /\ FindHeaderRow(ws) + 1 \notin SeparatorRowsOf(ws)
        /\ \A r \in SeparatorRowsOf(ws) :
               /\ r - 1 \in IssueRowsOf(ws)
               /\ r + 1 \in IssueRowsOf(ws)
               /\ InitiativeShown(ws, r - 1) # InitiativeShown(ws, r + 1)
        /\ \A r \in IssueRowsOf(ws) :
               r + 1 \in IssueRowsOf(ws)
                   => InitiativeShown(ws, r) = InitiativeShown(ws, r + 1)
        /\ Cardinality(SeparatorRowsOf(ws))
               = IF issues = <<>> THEN 0 ELSE Cardinality(DistinctInitiatives) - 1

\* a refreshed sheet of issues of two initiatives, with one separator row
C10_Witness ==
    /\ last_op = "refresh"
    /\ Cardinality(DistinctInitiatives) = 2
    /\ Cardinality(SeparatorRowsOf(ws)) = 1

(***************************************************************************)
(* C11.  The rows of the data block and their order.                       *)
(***************************************************************************)
\* the (initiative, project) pair an issue row shows
KeyShown(sheet, r) ==
    << StrOf(CellValue(sheet, r, TicketColOf(sheet) - 5)),
       StrOf(CellValue(sheet, r, TicketColOf(sheet) - 4)) >>

\* lexicographic order of two pairs of texts
PairBefore(a, b) ==
    \/ TextLess(a[1], b[1])
    \/ a[1] = b[1] /\ TextLess(a[2], b[2])

\* the rows that show the issue
RowsOfIssue(sheet, issue) ==
    {r \in IssueRowsOf(sheet) :
        CellValue(sheet, r, TicketColOf(sheet)) = TextVal(issue.url)}

\* C11: in a sheet written by populate_sheet the data block is the run of
\* rows from the row after the header row to that row plus the number of
\* issues and separators, with no gap; every issue has exactly one row; the
\* rows show the groups in ascending order of (initiative, project), and
\* the issues of one group in the order fetched; a separator row has no
\* value in any column
C11_DataBlockContiguousOrdered ==
    last_op = "populate" =>
        LET first_row == FindHeaderRow(ws) + 1
            rows == IssueRowsOf(ws) \cup SeparatorRowsOf(ws)
        IN  /\ IssueRowsOf(ws) \cap SeparatorRowsOf(ws) = {}
            /\ rows = first_row..(first_row + Cardinality(rows) - 1)
            /\ Cardinality(IssueRowsOf(ws)) = Len(issues)
            /\ issues # <<>> => max_row(ws) = first_row + Cardinality(rows) - 1
            /\ \A i \in 1..Len(issues) :
                   /\ Cardinality(RowsOfIssue(ws, issues[i])) = 1
                   /\ KeyShown(ws, RowOfIssue(ws, issues[i])) = GroupKey(issues[i])
            /\ \A r1, r2 \in IssueRowsOf(ws) :
                   r1 < r2 => ~PairBefore(KeyShown(ws, r2), KeyShown(ws, r1))
            /\ \A i, j \in 1..Len(issues) :
                   (i < j /\ GroupKey(issues[i]) = GroupKey(issues[j]))
                       => RowOfIssue(ws, issues[i]) < RowOfIssue(ws, issues[j])
            /\ \A r \in SeparatorRowsOf(ws) :
                   \A c \in 1..max_column(ws) : CellValue(ws, r, c) = NoneVal

\* a populated sheet of two issues of different initiatives, the later
\* fetched one in the earlier row, a separator between them
C11_Witness ==
    /\ last_op = "populate"
    /\ Len(issues) = 2
    /\ SeparatorRowsOf(ws) # {}
    /\ RowOfIssue(ws, issues[2]) < RowOfIssue(ws, issues[1])

(***************************************************************************)
(* C12.  The key an issue is grouped under.                                *)
(***************************************************************************)
\* the key as the statement gives it, the placeholders spelled out
StatedKey(issue) ==
    LET no_initiative == << "N", "o", " ", "I", "n", "i", "t", "i", "a", "t", "i", "v", "e" >>
        no_project == << "N", "o", " ", "P", "r", "o", "j", "e", "c", "t" >>
    IN  IF ~issue.project.has THEN << no_initiative, no_project >>
        ELSE IF Len(issue.project.initiatives) = 0
        THEN << no_initiative, issue.project.name >>
        ELSE << Head(issue.project.initiatives), issue.project.name >>

\* C12: in a sheet written by populate_sheet the row of every issue shows
\* the pair (initiative, project) of the issue: ("No Initiative",
\* "No Project") for an issue without a project, ("No Initiative", project
\* name) when the project lists no initiative, and the first initiative
\* listed when it lists several; issues with equal pairs are in adjacent
\* rows
C12_GroupingKey ==
    last_op = "populate" =>
        /\ \A i \in 1..Len(issues) :
               KeyShown(ws, RowOfIssue(ws, issues[i])) = StatedKey(issues[i])
        /\ \A i, j \in 1..Len(issues) :
               StatedKey(issues[i]) = StatedKey(issues[j]) =>
                   \A r \in IssueRowsOf(ws) \cup SeparatorRowsOf(ws) :
                       (RowOfIssue(ws, issues[i]) < r /\ r < RowOfIssue(ws, issues[j]))
                           => /\ r \in IssueRowsOf(ws)
                              /\ KeyShown(ws, r) = StatedKey(issues[i])

\* a populated sheet with an issue whose project lists two initiatives and
\* an issue whose project lists none
C12_Witness ==
    /\ last_op = "populate"
    /\ \E i \in 1..Len(issues) :
           /\ Len(issues[i].project.initiatives) = 2
           /\ KeyShown(ws, RowOfIssue(ws, issues[i]))[1] = BetaName
    /\ \E i \in 1..Len(issues) :
           /\ issues[i].project.has
           /\ issues[i].project.initiatives = <<>>
           /\ KeyShown(ws, RowOfIssue(ws, issues[i])) = << NoInitiativeName, ApiName >>

(***************************************************************************)
(* C13.  The capacity rows, the header row and the data rows.              *)
(***************************************************************************)
\* the rows between the capacity header and the header row that carry a
\* name in the assignee column
CapacityLabelRows(sheet, capacity_header_row) ==
    {r \in (capacity_header_row + 1)..(FindHeaderRow(sheet) - 1) :
        Truthy(CellValue(sheet, r, AssigneeColOf(sheet)))}

\* no issue has an assignee, and a refresh read none from the sheet
NoAssigneeAtAll ==
    /\ \A i \in 1..Len(issues) : issues[i].assignee = NoName
    /\ last_op = "refresh" =>
           \A i \in 1..Len(existing.assignees) : existing.assignees[i][2] = <<>>

CapacityName(sheet, r) == CellValue(sheet, r, AssigneeColOf(sheet))

\* the issue rows that show a name, not the placeholder of a missing one
NamedIssueRows(sheet) ==
    {r \in IssueRowsOf(sheet) :
        /\ Truthy(CellValue(sheet, r, AssigneeColOf(sheet)))
        /\ CellValue(sheet, r, AssigneeColOf(sheet)) # TextVal(NoAssigneeLabel)}

\* C14 as stated: in a sheet written by populate_sheet or
\* populate_sheet_refresh no two capacity rows carry one display name, and
\* every name shown in the assignee column of an issue row, the placeholder
\* of a missing assignee apart, is the name of a capacity row
C14_OneRowPerDisplayName ==
    last_op \in {"populate", "refresh"} =>
        /\ \A r1, r2 \in CapacityRowsOf(ws) :
               r1 # r2 => CapacityName(ws, r1) # CapacityName(ws, r2)
        /\ \A r \in NamedIssueRows(ws) :
               \E c \in CapacityRowsOf(ws) :
                   CapacityName(ws, c) = CellValue(ws, r, AssigneeColOf(ws))

(***************************************************************************)
(* C15.  The rows the aggregate formulas range over.                       *)
(***************************************************************************)
\* the cells of the sheet that hold an aggregate formula
FormulaCells(sheet) == {p \in DOMAIN sheet : sheet[p].v.k = "formula"}

\* C15: in a sheet written by populate_sheet or populate_sheet_refresh every
\* cell of a capacity row in a week column holds an aggregate formula, and
\* every aggregate formula tests the assignee column and sums its own
\* column over the rows from the first row below the header row to the last
\* row written, separator rows included, against the name in its own row
C15_FormulaRangeIsDataBlock ==
    last_op \in {"populate", "refresh"} =>
        LET header_row == FindHeaderRow(ws)
            data_rows == IssueRowsOf(ws) \cup SeparatorRowsOf(ws)
            last_written == IF data_rows = {} THEN header_row ELSE SetMax(data_rows)
        IN  /\ \A r \in CapacityRowsOf(ws), c \in WeekColsOf(ws, weeks_used) :
                   << r, c >> \in FormulaCells(ws)
            /\ \A p \in FormulaCells(ws) :
                   /\ p[1] \in CapacityRowsOf(ws)
                   /\ p[2] \in WeekColsOf(ws, weeks_used)
                   /\ ws[p].v.f = << AssigneeColOf(ws), header_row + 1, last_written, p[1], p[2] >>

\* a refreshed sheet with formulas whose last row is not the estimate made
\* from the number of issues before the rows were written
C15_Witness ==
    /\ last_op = "refresh"
    /\ FormulaCells(ws) # {}
    /\ \A p \in FormulaCells(ws) :
           /\ ws[p].v.f[3] = max_row(ws)
           /\ ws[p].v.f[3] # FindHeaderRow(ws) + 1 + Len(issues)

(***************************************************************************)
(* C16.  The column a weekly placement lands in.  The --weeks option is an *)
(* integer that is not validated, so a sheet is also written for a week    *)
(* count of zero.                                                          *)
(***************************************************************************)
InitAnyWeeks == InitWith(Catalogue, 0..MaxWeeks)

SpecAnyWeeks == InitAnyWeeks /\ [][Next]_vars

\* the columns right of the ticket column in which a row holds a number
\* or a "(No cycle!)" text, the values a placement writes
PlacementCols(sheet, r) ==
    {c \in (TicketColOf(sheet) + 1)..max_column(sheet) :
        \/ CellValue(sheet, r, c).k = "num"
        \/ /\ CellValue(sheet, r, c).k = "str"
           /\ Contains(CellValue(sheet, r, c).s, NoCycleSuffix)}

\* the week index of a date, clamped into [0, n - 1]
ClampedIndex(stamp, start, n) ==
    LET whole_days == DaysBetween(stamp.t, start)
        floor_weeks == IF whole_days >= 0 THEN whole_days \div DaysPerWeek
                       ELSE -((-whole_days + DaysPerWeek - 1) \div DaysPerWeek)
    IN  IF floor_weeks < 0 THEN 0
        ELSE IF floor_weeks > n - 1 THEN n - 1
        ELSE floor_weeks

\* C16 as stated: in a sheet written by populate_sheet for any week count
\* n >= 0, every placement of an issue row is in one of the n week columns
\* right of the assignee column, the assignee column keeps the name or the
\* placeholder, and an issue whose event date parses is placed at the week
\* index of that date clamped into [0, n - 1]
C16_PlacementInWeekColumn ==
    last_op = "populate" =>
        \A i \in 1..Len(issues) :
            LET r == RowOfIssue(ws, issues[i])
                placed == PlacementCols(ws, r)
            IN  /\ placed \subseteq WeekColsOf(ws, num_weeks)
                /\ CellValue(ws, r, AssigneeColOf(ws)) \in
                       {TextVal(format_name(issues[i].assignee, TRUE)),
                        TextVal(NoAssigneeLabel)}
                /\ (placed # {} /\ EventDate(issues[i]).k = "iso") =>
                       /\ ClampedIndex(EventDate(issues[i]), start_date, num_weeks)
                              \in 0..(num_weeks - 1)
                       /\ placed = {FirstWeekColOf(ws) + ClampedIndex(EventDate(issues[i]),
                                                                     start_date, num_weeks)}

(***************************************************************************)
(* The week grid helpers called on their own: generate_week_dates and      *)
(* get_week_index, for two start dates, every week count from 0 and the    *)
(* timestamp texts of every day around the window.                         *)
(***************************************************************************)
\* days before the window and after it that timestamps are drawn from
MaxDayOffset == 9

\* 2025-01-15, and 2025-12-22, whose window runs into the next year
StartDates == {StartDate, Day(341)}

\* texts that datetime.fromisoformat rejects: words, day 31 of February,
\* hour 24, month 13, a leading blank
RejectedTexts ==
    {<< "t", "b", "d" >>,
     [IsoText(Day(17)) EXCEPT ![9] = "3", ![10] = "1"],
     [IsoText(StartDate) EXCEPT ![12] = "2", ![13] = "4"],
     [DateText(StartDate) EXCEPT ![6] = "1", ![7] = "3"],
     << " " >> \o DateText(StartDate)}

\* the texts get_week_index is called with: none, the API's text of the
\* first and the last hour of every day from MaxDayOffset days before the
\* window to MaxDayOffset days after it, a date alone, a text without the
\* fraction, and the rejected texts
DateTexts(start) ==
    {<<>>}
    \cup {IsoText(start + d * HoursPerDay + h) :
              d \in (-MaxDayOffset)..(DaysPerWeek * MaxWeeks + MaxDayOffset),
              h \in {0, HoursPerDay - 1}}
    \cup {DateText(start + d * HoursPerDay) : d \in {-1, 0, DaysPerWeek}}
    \cup {SubSeq(IsoText(start + d * HoursPerDay), 1, 19) : d \in {-1, 0, DaysPerWeek}}
    \cup RejectedTexts

InitWeekGrid ==
    /\ issues = <<>>
    /\ start_date \in StartDates
    /\ num_weeks \in 0..MaxWeeks
    /\ cycle_start = NoStamp
    /\ ws = EmptySheet
    /\ last_op = "init"
    /\ existing = NoExistingData
    /\ weeks_used = 0
    /\ edits = 0
    /\ date_text \in DateTexts(start_date)
    /\ name = <<>>
    /\ first_only = TRUE
    /\ returned = <<>>
    /\ NoRun

sheet_vars == << issues, start_date, num_weeks, cycle_start, ws, existing, weeks_used, edits, run_vars >>

\* get_week_index(date_text, start_date, num_weeks)
GetWeekIndex ==
    /\ returned' = get_week_index(Stamp(date_text), start_date, num_weeks)
    /\ last_op' = "get_week_index"
    /\ UNCHANGED << sheet_vars, date_text, name, first_only >>

\* generate_week_dates(start_date, num_weeks)
GenerateWeekDates ==
    /\ returned' = generate_week_dates(start_date, num_weeks)
    /\ last_op' = "generate_week_dates"
    /\ UNCHANGED << sheet_vars, date_text, name, first_only >>

\* get_week_index(generate_week_dates(start_date, num_weeks)[i], ...): the
\* datetime of the list is passed as it is
WeekOfGridDate ==
    \E i \in 0..(num_weeks - 1) :
        /\ returned' =
               [i |-> i,
                week_idx |-> get_week_index(
                    DatetimeArg(generate_week_dates(start_date, num_weeks)[i + 1]),
                    start_date, num_weeks)]
        /\ last_op' = "week_of_grid_date"
        /\ UNCHANGED << sheet_vars, date_text, name, first_only >>

\* the same call with the datetime written as an ISO-8601 text
WeekOfGridText ==
    \E i \in 0..(num_weeks - 1) :
        /\ date_text' = IsoText(generate_week_dates(start_date, num_weeks)[i + 1])
        /\ returned' =
               [i |-> i,
                week_idx |-> get_week_index(Stamp(date_text'), start_date, num_weeks)]
        /\ last_op' = "week_of_grid_text"
        /\ UNCHANGED << sheet_vars, name, first_only >>

NextWeekGrid == GetWeekIndex \/ GenerateWeekDates \/ WeekOfGridDate \/ WeekOfGridText

SpecWeekGrid == InitWeekGrid /\ [][NextWeekGrid]_vars

(***************************************************************************)
(* C17.  get_week_index on the dates of generate_week_dates.               *)
(***************************************************************************)
\* C17 as stated: get_week_index(generate_week_dates(start, n)[i], start, n)
\* is i for every i in [0, n)
C17_InverseOnGridDates ==
    last_op = "week_of_grid_date" => returned.week_idx = returned.i

\* C17: for every start date, every n and every i in [0, n), get_week_index
\* called with the ISO-8601 text of generate_week_dates(start, n)[i]
\* returns i, and called with the datetime itself returns -1
C17_InverseOnGridTexts ==
    /\ last_op = "week_of_grid_text" =>
           /\ returned.week_idx = returned.i
           /\ FromIsoFormat(ReplaceZ(date_text)).t
                  = start_date + returned.i * DaysPerWeek * HoursPerDay
    /\ last_op = "week_of_grid_date" => returned.week_idx = -1

\* the last date of a window that runs into the next year, as a text
C17_Witness ==
    /\ last_op = "week_of_grid_text"
    /\ start_date = Day(341)
    /\ num_weeks = MaxWeeks
    /\ returned.i = MaxWeeks - 1
    /\ returned.week_idx = MaxWeeks - 1
    /\ SubSeq(date_text, 1, 4) = << "2", "0", "2", "6" >>

(***************************************************************************)
(* C18.  generate_week_dates.                                              *)
(***************************************************************************)
\* C18: generate_week_dates(start, n) has n elements, element i (from 0)
\* is start + 7 * i days, and each element is later than the one before
C18_WeekDates ==
    last_op = "generate_week_dates" =>
        /\ Len(returned) = num_weeks
        /\ \A i \in 0..(num_weeks - 1) :
               returned[i + 1] = start_date + 7 * i * 24
        /\ \A i \in 1..(num_weeks - 1) : returned[i] < returned[i + 1]

\* the dates of the longest window
C18_Witness ==
    /\ last_op = "generate_week_dates"
    /\ num_weeks = MaxWeeks
    /\ Len(returned) = MaxWeeks
    /\ returned[1] = start_date
    /\ returned[MaxWeeks] > returned[1]

(***************************************************************************)
(* C19.  The outcomes of get_week_index.                                   *)
(***************************************************************************)
\* the outcome a return value of get_week_index stands for
OutcomeOf(value, n) ==
    IF value = -1 THEN "invalid"
    ELSE IF value = -2 THEN "before"
    ELSE IF value >= 0 /\ value < n THEN "in-window"
    ELSE IF value >= n THEN "after"
    ELSE "none"

\* C19: get_week_index returns -1 exactly when the text is missing or
\* rejected by the parser, -2 exactly when it parses to an instant before
\* the start date, and otherwise floor((date - start) / 7 days), which is
\* >= 0; the return value alone tells invalid, before, in-window and after
\* apart
C19_Outcomes ==
    last_op = "get_week_index" =>
        LET parsed == FromIsoFormat(ReplaceZ(date_text))
            invalid == date_text = <<>> \/ ~parsed.ok
            before == ~invalid /\ parsed.t < start_date
            weeks == (parsed.t - start_date) \div (7 * 24)
        IN  /\ returned = -1 <=> invalid
            /\ returned = -2 <=> before
            /\ (~invalid /\ ~before) => (returned = weeks /\ returned >= 0)
            /\ OutcomeOf(returned, num_weeks) =
                   (IF invalid THEN "invalid"
                    ELSE IF before THEN "before"
                    ELSE IF weeks < num_weeks THEN "in-window"
                    ELSE "after")

\* a text that parses to the hour before the start date
C19_Witness ==
    /\ last_op = "get_week_index"
    /\ FromIsoFormat(ReplaceZ(date_text)).ok
    /\ FromIsoFormat(ReplaceZ(date_text)).t = start_date - 1
    /\ returned = -2

(***************************************************************************)
(* format_name called on its own, for every text of at most MaxNameLen     *)
(* characters over a small alphabet and the two names of its docstring.    *)
(***************************************************************************)
\* the longest raw name drawn from the alphabet
MaxNameLen == 4

\* a lower-case letter, an upper-case letter, the dot, the at sign, a blank
NameAlphabet == {"a", "B", ".", AtSign, " "}

JohnDoeMail == << "j", "o", "h", "n", ".", "d", "o", "e", "@", "c", "o", "m", "p", "a", "n", "y", ".", "c", "o", "m" >>

JohnDoe == << "J", "o", "h", "n", " ", "D", "o", "e" >>

RawNames ==
    UNION {[1..n -> NameAlphabet] : n \in 0..MaxNameLen} \cup {JohnDoeMail, JohnDoe}

InitNames ==
    /\ issues = <<>>
    /\ start_date = StartDate
    /\ num_weeks = 0
    /\ cycle_start = NoStamp
    /\ ws = EmptySheet
    /\ last_op = "init"
    /\ existing = NoExistingData
    /\ weeks_used = 0
    /\ edits = 0
    /\ date_text = <<>>
    /\ name \in RawNames
    /\ first_only \in BOOLEAN
    /\ returned = <<>>
    /\ NoRun

\* format_name(name, first_only): the value returned, or the exception
FormatName ==
    /\ returned' = IF FormatNameRaises(name, first_only)
                   THEN [raised |-> TRUE, value |-> <<>>]
                   ELSE [raised |-> FALSE, value |-> format_name(name, first_only)]
    /\ last_op' = "format_name"
    /\ UNCHANGED << sheet_vars, date_text, name, first_only >>

NextNames == FormatName

SpecNames == InitNames /\ [][NextNames]_vars

(***************************************************************************)
(* C20.  format_name.                                                      *)
(***************************************************************************)
\* the name before first_only applies, character by character: a raw name
\* without '@' as it is; otherwise the part before the first '@' with every
\* dot turned into a blank, the first character of every dot-separated
\* token in upper case and its other characters in lower case
StatedFullName(raw) ==
    LET at == {i \in 1..Len(raw) : raw[i] = AtSign}
        part == SubSeq(raw, 1, SetMin(at) - 1)
    IN  IF at = {} THEN raw
        ELSE [i \in 1..Len(part) |->
                 IF part[i] = "." THEN " "
                 ELSE IF i = 1 \/ part[i - 1] = "." THEN UpperChar(part[i])
                 ELSE LowerChar(part[i])]

\* the first blank-separated token of a text that has one
FirstToken(s) ==
    LET from == SetMin({i \in 1..Len(s) : s[i] # " "})
        blanks == {i \in from..Len(s) : s[i] = " "}
    IN  SubSeq(s, from, IF blanks = {} THEN Len(s) ELSE SetMin(blanks) - 1)

\* C20: when format_name returns, it returns the stated full name, or with
\* first_only its first blank-separated token, or the empty text when the
\* full name is empty; in particular "John" for "john.doe@company.com" with
\* first_only, "John Doe" for "John Doe" without, and "" for ""
C20_FormatName ==
    last_op = "format_name" =>
        LET full == StatedFullName(name)
            has_token == \E i \in 1..Len(full) : full[i] # " "
        IN  /\ ~first_only => (~returned.raised /\ returned.value = full)
            /\ (first_only /\ has_token) =>
                   (~returned.raised /\ returned.value = FirstToken(full))
            /\ (first_only /\ full = <<>>) =>
                   (~returned.raised /\ returned.value = <<>>)
            /\ (name = JohnDoeMail /\ first_only) =>
                   returned.value = << "J", "o", "h", "n" >>
            /\ (name = JohnDoe /\ ~first_only) => returned.value = JohnDoe
            /\ name = <<>> => returned.value = <<>>

\* "john.doe@company.com" with first_only gave "John"
C20_Witness ==
    /\ last_op = "format_name"
    /\ name = JohnDoeMail
    /\ first_only
    /\ ~returned.raised
    /\ returned.value = << "J", "o", "h", "n" >>

(***************************************************************************)
(* The historical-assignee resolver used by the sheets per week.  Its code *)
(* (create_excel_by_weeks) is imported by linear_to_excel.py and is not    *)
(* among the source files; it is modelled from section 4.5 of the          *)
(* specification.  A history entry is the node fetch_issue_history         *)
(* returns: createdAt, fromAssignee, toAssignee.                           *)
(***************************************************************************)
\* most entries of a change log
MaxLogLen == 2
\* latest hour of a history entry
MaxLogTime == 3

UnassignedName == << "u", "n", "a", "s", "s", "i", "g", "n", "e", "d" >>

BobName == << "B", "o", "b" >>

HistoryEntry(createdAt, from, to) ==
    [createdAt |-> createdAt, fromAssignee |-> from, toAssignee |-> to]

\* the entries with a parseable timestamp, ascending by timestamp; entries
\* of one timestamp keep their stored order
RECURSIVE SortedByTime(_)
SortedByTime(log) ==
    LET usable == {i \in 1..Len(log) : log[i].createdAt.k = "iso"}
    IN  IF usable = {} THEN <<>>
        ELSE LET first == CHOOSE i \in usable :
                     \A j \in usable :
                         \/ log[i].createdAt.t < log[j].createdAt.t
                         \/ log[i].createdAt.t = log[j].createdAt.t /\ i <= j
                 rest == [k \in 1..(Len(log) - 1) |->
                             IF k < first THEN log[k] ELSE log[k + 1]]
             IN  << log[first] >> \o SortedByTime(rest)

\* the scan: entries up to the target date, in order; stops at the first
\* later one
RECURSIVE ReplayLog(_, _, _)
ReplayLog(ordered, targetDate, current) ==
    IF ordered = <<>> THEN current
    ELSE IF ordered[1].createdAt.t > targetDate THEN current
    ELSE ReplayLog(Tail(ordered), targetDate,
                   IF ordered[1].toAssignee # NoName THEN ordered[1].toAssignee
                   ELSE IF ordered[1].fromAssignee # NoName THEN UnassignedName
                   ELSE current)

\* a slip: the entries are replayed in the order they are stored in
assigneeAsOf_StoredOrder(item, changeLog, targetDate) ==
    IF changeLog = <<>>
    THEN (IF item.assignee = NoName THEN UnassignedName ELSE item.assignee)
    ELSE ReplayLog(SelectSeq(changeLog, LAMBDA e : e.createdAt.k = "iso"),
                   targetDate, UnassignedName)

assigneeAsOf(item, changeLog, targetDate) ==
    IF changeLog = <<>>
    THEN (IF item.assignee = NoName THEN UnassignedName ELSE item.assignee)
    ELSE ReplayLog(SortedByTime(changeLog), targetDate, UnassignedName)

\* the entries drawn: an assignment to Alice, a reassignment from Alice to
\* Bob and an unassignment of Bob at every hour, and an entry whose
\* timestamp does not parse
HistoryEntries ==
    {HistoryEntry(Iso(t), NoName, AliceName) : t \in 1..MaxLogTime}
    \cup {HistoryEntry(Iso(t), AliceName, BobName) : t \in 1..MaxLogTime}
    \cup {HistoryEntry(Iso(t), BobName, NoName) : t \in 1..MaxLogTime}
    \cup {HistoryEntry(BadStamp, NoName, DanaName)}

ChangeLogs == UNION {[1..n -> HistoryEntries] : n \in 0..MaxLogLen}

InitHistory ==
    /\ issues \in {<< IssueA >>, << IssueUnassigned >>}
    /\ start_date = StartDate
    /\ num_weeks = 0
    /\ cycle_start = NoStamp
    /\ ws = EmptySheet
    /\ last_op = "init"
    /\ existing = NoExistingData
    /\ weeks_used = 0
    /\ edits = 0
    /\ date_text = <<>>
    /\ name = <<>>
    /\ first_only = TRUE
    /\ returned = <<>>
    /\ change_log \in ChangeLogs
    /\ target_date \in 0..(MaxLogTime + 1)
    /\ wb = NoWorkbook
    /\ loaded = NoWorkbook
    /\ NoFetch
    /\ NoMain

\* assigneeAsOf(item, change_log, target_date)
AssigneeAsOf ==
    /\ returned' = assigneeAsOf(issues[1], change_log, target_date)
    /\ last_op' = "assignee_as_of"
    /\ UNCHANGED << issues, start_date, num_weeks, cycle_start, ws, existing,
                    weeks_used, edits, date_text, name, first_only, run_vars >>

NextHistory == AssigneeAsOf

SpecHistory == InitHistory /\ [][NextHistory]_vars

(***************************************************************************)
(* C21.  The assignee as of a date.                                        *)
(***************************************************************************)
\* C21: for a log of two entries, unassigned -> Alice at t1 and
\* Alice -> Bob at t2 with t1 < t2, stored in either order, the assignee as
\* of t is "unassigned" for t < t1, Alice for t1 <= t < t2 and Bob for
\* t >= t2
C21_AssigneeAsOf ==
    last_op = "assignee_as_of" =>
        \A t1, t2 \in 1..MaxLogTime :
            LET to_alice == HistoryEntry(Iso(t1), NoName, AliceName)
                to_bob == HistoryEntry(Iso(t2), AliceName, BobName)
            IN  (t1 < t2 /\ change_log \in {<< to_alice, to_bob >>, << to_bob, to_alice >>})
                    => returned = (IF target_date < t1 THEN UnassignedName
                                   ELSE IF target_date < t2 THEN AliceName
                                   ELSE BobName)

\* the reassignment is stored before the assignment, and the date asked
\* for lies between the two
C21_Witness ==
    /\ last_op = "assignee_as_of"
    /\ Len(change_log) = 2
    /\ change_log[1] = HistoryEntry(Iso(2), AliceName, BobName)
    /\ change_log[2] = HistoryEntry(Iso(1), NoName, AliceName)
    /\ target_date = 1
    /\ returned = AliceName

(***************************************************************************)
(* The workbook machine: refresh_excel (lines 316-352) on a workbook file  *)
(* of several sheets, one of them the active one.                          *)
(***************************************************************************)
\* the sheets of a workbook file on disk, at most
MaxSheets == 2

\* a sheet: its title, whether it is a worksheet or a chartsheet, its cells
Sheet(title, kind, cells) == [title |-> title, kind |-> kind, cells |-> cells]

\* wb.worksheets: the sheets that are worksheets, in tab order
worksheets(book) == SelectSeq(book.sheets, LAMBDA s : s.kind = "worksheet")

\* wb.active (line 339): the place of the sheet at _active_sheet_index, 0
\* for None
ActiveSheet(book) == IF book.active < Len(book.sheets) THEN book.active + 1 ELSE 0

\* wb.worksheets[0] (line 646): the place of the first worksheet, 0 when
\* the workbook has none
ParsedSheet(book) ==
    LET at == {i \in 1..Len(book.sheets) : book.sheets[i].kind = "worksheet"}
    IN  IF at = {} THEN 0 ELSE SetMin(at)

\* read_existing_capacity_data(wb, start_date), lines 642-646: nothing is
\* read from a workbook without a worksheet, else the first worksheet is
\* read
ReadWorkbook(book, start) ==
    IF worksheets(book) = <<>> THEN NoExistingData
    ELSE read_existing_capacity_data(book.sheets[ParsedSheet(book)].cells, start)

\* wb.remove(old_sheet), line 343
RemoveSheet(sheets, at) == SubSeq(sheets, 1, at - 1) \o SubSeq(sheets, at + 1, Len(sheets))

\* start_date.strftime("%m-%d"), line 308
SheetTitle(start) == SubSeq(DateText(start), 6, 10)

\* the sheet create_excel writes for a list of items
CreatedSheet(items, start, asked) ==
    Sheet(SheetTitle(start), "worksheet",
          populate_sheet(items, start, asked, NoStamp))

\* a worksheet of notes, a worksheet without a cell, and a chart
NotesSheet ==
    Sheet(<< "N", "o", "t", "e", "s" >>, "worksheet",
          Put(1, 1, TextVal(<< "t", "o", "d", "o" >>), "none")
          @@ Put(2, 7, TextVal(<< "T", "i", "c", "k", "e", "t" >>), "none"))

BlankSheet == Sheet(<< "S", "h", "e", "e", "t" >>, "worksheet", EmptySheet)

ChartSheet == Sheet(<< "C", "h", "a", "r", "t" >>, "chartsheet", EmptySheet)

SheetCatalogue == {NotesSheet, BlankSheet, ChartSheet}

\* the titles of the sheets of a workbook
Titles(book) == {book.sheets[i].title : i \in 1..Len(book.sheets)}

\* the workbook files of at most MaxSheets of these sheets, each at most
\* once, any of them the active one
Workbooks ==
    UNION {{Workbook(sheets, active_index) :
                active_index \in 0..(IF Len(sheets) = 0 THEN 0 ELSE Len(sheets) - 1)} :
           sheets \in UNION {{t \in [1..n -> SheetCatalogue] :
                                  \A i, j \in 1..n : t[i].title = t[j].title => i = j} :
                             n \in 0..MaxSheets}}

\* the issues a workbook file is refreshed from
WorkbookCatalogue == << IssueA, IssueNoCycle, IssueBare >>

InitWorkbook ==
    /\ issues \in IssueLists(WorkbookCatalogue)
    /\ start_date = StartDate
    /\ num_weeks = MaxRefreshWeeks
    /\ cycle_start = NoStamp
    /\ ws = EmptySheet
    /\ last_op = "init"
    /\ existing = NoExistingData
    /\ weeks_used = 0
    /\ edits = 0
    /\ date_text = <<>>
    /\ name = <<>>
    /\ first_only = TRUE
    /\ returned = <<>>
    /\ change_log = <<>>
    /\ target_date = 0
    /\ wb \in Workbooks
    /\ loaded = NoWorkbook
    /\ NoFetch
    /\ NoMain

\* create_excel (lines 297-313): a new workbook of one sheet replaces the
\* file
CreateWorkbook ==
    /\ last_op = "init"
    /\ wb' = Workbook(<< CreatedSheet(issues, start_date, num_weeks) >>, 0)
    /\ last_op' = "create"
    /\ weeks_used' = num_weeks
    /\ UNCHANGED << issues, start_date, num_weeks, cycle_start, ws, existing, edits,
                    date_text, name, first_only, returned, change_log, target_date,
                    loaded, fetch_vars, main_vars >>

\* a person adds a sheet to the created workbook, in front of the others or
\* behind them, and saves
AddSheet ==
    \E sheet \in SheetCatalogue, in_front \in BOOLEAN :
        /\ last_op \in {"create", "edit", "insert"}
        /\ Len(wb.sheets) \in 1..(MaxSheets - 1)
        /\ sheet.title \notin Titles(wb)
        /\ wb' = Workbook(IF in_front THEN << sheet >> \o wb.sheets
                                      ELSE wb.sheets \o << sheet >>,
                          IF in_front THEN wb.active + 1 ELSE wb.active)
        /\ last_op' = "add"
        /\ UNCHANGED << issues, start_date, num_weeks, cycle_start, ws, existing, weeks_used,
                        edits, date_text, name, first_only, returned, change_log,
                        target_date, loaded, fetch_vars, main_vars >>

\* a person who added a sheet selects another sheet and saves
SelectSheet ==
    \E at \in 1..Len(wb.sheets) :
        /\ last_op = "add"
        /\ at - 1 # wb.active
        /\ wb' = Workbook(wb.sheets, at - 1)
        /\ last_op' = "select"
        /\ UNCHANGED << issues, start_date, num_weeks, cycle_start, ws, existing, weeks_used,
                        edits, date_text, name, first_only, returned, change_log,
                        target_date, loaded, fetch_vars, main_vars >>

\* a person types a name and a first-week value into the row of an issue
\* the created sheet shows without an assignee, and saves
TypeIntoSheet ==
    \E at \in 1..Len(wb.sheets) :
        LET cells == wb.sheets[at].cells
            col == TicketColOf(cells)
        IN  \E r \in IssueRowsOf(cells) :
                /\ last_op = "create"
                /\ edits < MaxEdits
                /\ CellValue(cells, r, col + 1) = TextVal(NoAssigneeLabel)
                /\ wb' = [wb EXCEPT !.sheets[at].cells =
                              Put(r, col + 1, TextVal(DanaName), "none")
                              @@ Put(r, col + 2, NumVal(9), "none")
                              @@ cells]
                /\ edits' = edits + 1
                /\ last_op' = "edit"
                /\ UNCHANGED << issues, start_date, num_weeks, cycle_start, ws, existing,
                                weeks_used, date_text, name, first_only, returned,
                                change_log, target_date, loaded, fetch_vars, main_vars >>

\* a person inserts HeaderScanLimit rows above a planning sheet, and saves
InsertRowsAbove ==
    \E at \in 1..Len(wb.sheets) :
        LET cells == wb.sheets[at].cells
        IN  /\ last_op \in {"create", "edit"}
            /\ FindHeaderRow(cells) # 0
            /\ wb' = [wb EXCEPT !.sheets[at].cells =
                          [p \in {<< q[1] + HeaderScanLimit, q[2] >> : q \in DOMAIN cells} |->
                              cells[<< p[1] - HeaderScanLimit, p[2] >>]]]
            /\ last_op' = "insert"
            /\ UNCHANGED << issues, start_date, num_weeks, cycle_start, ws, existing,
                            weeks_used, edits, date_text, name, first_only, returned,
                            change_log, target_date, loaded, fetch_vars, main_vars >>

\* refresh_excel (lines 316-352) on the workbook file: the first worksheet
\* is read, the active sheet is removed, a sheet of its title is created at
\* index 0 and populated, and the workbook is saved.  The title of None
\* (line 340) raises AttributeError before anything is saved.
RefreshWorkbook ==
    /\ \E read \in {ReadWorkbook(wb, start_date)} :
           LET weeks == RefreshNumWeeks(read, num_weeks)
               old_sheet == ActiveSheet(wb)
           IN  /\ existing' = read
               /\ weeks_used' = weeks
               /\ IF old_sheet = 0
                  THEN /\ wb' = wb
                       /\ last_op' = "raised"
                  ELSE /\ wb' = Workbook(
                                    << Sheet(wb.sheets[old_sheet].title, "worksheet",
                                             populate_sheet_refresh(issues, start_date, weeks,
                                                                    read.capacity,
                                                                    read.assignees)) >>
                                    \o RemoveSheet(wb.sheets, old_sheet),
                                    wb.active)
                       /\ last_op' = "refresh"
    /\ loaded' = wb
    /\ UNCHANGED << issues, start_date, num_weeks, cycle_start, ws, edits,
                    date_text, name, first_only, returned, change_log, target_date,
                    fetch_vars, main_vars >>

NextWorkbook ==
    \/ CreateWorkbook
    \/ AddSheet
    \/ SelectSheet
    \/ TypeIntoSheet
    \/ InsertRowsAbove
    \/ RefreshWorkbook

SpecWorkbook == InitWorkbook /\ [][NextWorkbook]_vars

(***************************************************************************)
(* C22.  A workbook without a sheet or without a header row.               *)
(***************************************************************************)
\* nothing can be read back from the workbook: it has no worksheet, or the
\* first one has no ticket label in column G or F of the scanned rows
NoPriorData(book) ==
    \/ worksheets(book) = <<>>
    \/ FindHeaderRow(book.sheets[ParsedSheet(book)].cells) = 0

\* C22: when the workbook refresh_excel loads has no sheet, or no header row
\* with the ticket label is found in the scanned rows, empty maps are read,
\* refresh_excel completes, and the sheet it writes is the sheet a refresh
\* with no prior data writes.
C22_NoHeaderIsNoPriorData ==
    (last_op \in {"refresh", "raised"} /\ NoPriorData(loaded)) =>
        /\ existing = NoExistingData
        /\ last_op = "refresh"
        /\ wb.sheets[1].cells
               = populate_sheet_refresh(issues, start_date, num_weeks, << >>, << >>)

(***************************************************************************)
(* C27.  The sheet read and the sheet replaced.                            *)
(***************************************************************************)
\* C27: refresh_excel reads the prior placements and assignees from the
\* sheet it then removes and rebuilds: after a completed refresh of any
\* workbook, the sheet that was parsed is the sheet that was replaced, and
\* every other sheet is as it was loaded.
C27_ParsedSheetIsReplaced ==
    last_op = "refresh" =>
        /\ ParsedSheet(loaded) = ActiveSheet(loaded)
        /\ Tail(wb.sheets) = RemoveSheet(loaded.sheets, ActiveSheet(loaded))

(***************************************************************************)
(* The bulk fetch of the issue histories: fetch_issues_history_bulk        *)
(* (linear_api.py, lines 335-363) submits fetch_single for every issue id  *)
(* to a pool of max_workers threads and collects the futures as they       *)
(* complete.                                                               *)
(***************************************************************************)
\* the issue ids of a call, at most
MaxFetch == 3

\* the threads of the pool (max_workers)
MaxWorkers == 2

\* what the upstream answers to one request of a history page
Page(nodes, hasNextPage) == [k |-> "page", nodes |-> nodes, hasNextPage |-> hasNextPage]

\* the request fails in transport, or with a status raise_for_status rejects
TransportError == [k |-> "transport", nodes |-> <<>>, hasNextPage |-> FALSE]

\* the answer carries "errors"
ApiErrors == [k |-> "errors", nodes |-> <<>>, hasNextPage |-> FALSE]

\* the answer carries no issue
NoIssue == [k |-> "no_issue", nodes |-> <<>>, hasNextPage |-> FALSE]

\* what leaves a function: a value, or an exception
Returns(value) == [exc |-> "none", value |-> value]

Raises(exc) == [exc |-> exc, value |-> <<>>]

\* linear_request (lines 25-43): requests.post or raise_for_status raises
\* on a transport error, sys.exit(1) raises SystemExit on reported errors
linear_request(response) ==
    IF response.k = "transport" THEN Raises("RequestException")
    ELSE IF response.k = "errors" THEN Raises("SystemExit")
    ELSE Returns(response)

\* fetch_issue_history (lines 209-332): the pages are requested one after
\* the other until a page has no next page or no issue
RECURSIVE fetch_issue_history(_, _)
fetch_issue_history(responses, all_history) ==
    LET data == linear_request(Head(responses))
    IN  IF data.exc # "none" THEN data
        ELSE IF data.value.k = "no_issue" THEN Returns(all_history)
        ELSE IF data.value.hasNextPage
        THEN fetch_issue_history(Tail(responses), all_history \o data.value.nodes)
        ELSE Returns(all_history \o data.value.nodes)

\* the answers of the upstream for one issue: one page, two pages, a failure
\* at the first or at the second request, no issue
Upstreams ==
    {<< Page(<< "h1" >>, FALSE) >>,
     << Page(<< "h1" >>, TRUE), Page(<< "h2" >>, FALSE) >>,
     << Page(<< "h1" >>, TRUE), TransportError >>,
     << TransportError >>,
     << ApiErrors >>,
     << NoIssue >>}

\* a future: queued, running, done with what fetch_single returned or
\* raised, or done and seen by the collecting loop
Future(state, outcome) == [state |-> state, outcome |-> outcome]

InitFetch ==
    /\ issues = <<>>
    /\ start_date = StartDate
    /\ num_weeks = 0
    /\ cycle_start = NoStamp
    /\ ws = EmptySheet
    /\ last_op = "init"
    /\ existing = NoExistingData
    /\ weeks_used = 0
    /\ edits = 0
    /\ date_text = <<>>
    /\ name = <<>>
    /\ first_only = TRUE
    /\ returned = <<>>
    /\ change_log = <<>>
    /\ target_date = 0
    /\ wb = NoWorkbook
    /\ loaded = NoWorkbook
    /\ served \in UNION {[1..n -> Upstreams] : n \in 0..MaxFetch}
    /\ futures = <<>>
    /\ result = << >>
    /\ call = [at |-> "idle", exc |-> "none"]
    /\ NoMain

no_fetch_vars == << issues, start_date, num_weeks, cycle_start, ws, last_op, existing, weeks_used, edits, date_text, name, first_only, returned, change_log, target_date, wb, loaded, main_vars >>

\* lines 346-352: an empty list returns the empty dict, else every issue id
\* is submitted
Submit ==
    /\ call.at = "idle"
    /\ IF Len(served) = 0
       THEN /\ call' = [at |-> "returned", exc |-> "none"]
            /\ UNCHANGED futures
       ELSE /\ call' = [at |-> "collecting", exc |-> "none"]
            /\ futures' = [i \in 1..Len(served) |-> Future("queued", Returns(<<>>))]
    /\ UNCHANGED << no_fetch_vars, served, result >>

\* a free thread of the pool takes a queued call of fetch_single
StartFetch ==
    \E i \in 1..Len(futures) :
        /\ futures[i].state = "queued"
        /\ Cardinality({j \in 1..Len(futures) : futures[j].state = "running"}) < MaxWorkers
        /\ futures' = [futures EXCEPT ![i].state = "running"]
        /\ UNCHANGED << no_fetch_vars, served, result, call >>

\* fetch_single (lines 354-356) ends in its thread: the future holds the
\* history, or the exception that left fetch_issue_history
FinishFetch ==
    \E i \in 1..Len(futures) :
        /\ futures[i].state = "running"
        /\ futures' = [futures EXCEPT ![i] = Future("done", fetch_issue_history(served[i], <<>>))]
        /\ UNCHANGED << no_fetch_vars, served, result, call >>

\* lines 358-360: as_completed hands over a done future; future.result()
\* returns its history, which is stored, or raises its exception, which
\* leaves the loop
Collect ==
    \E i \in 1..Len(futures) :
        /\ call.at = "collecting"
        /\ futures[i].state = "done"
        /\ futures' = [futures EXCEPT ![i].state = "collected"]
        /\ IF futures[i].outcome.exc = "none"
           THEN /\ result' = (i :> futures[i].outcome.value) @@ result
                /\ UNCHANGED call
           ELSE /\ call' = [at |-> "unwinding", exc |-> futures[i].outcome.exc]
                /\ UNCHANGED result
        /\ UNCHANGED << no_fetch_vars, served >>

\* line 362: every future was collected and the dict is returned
Return ==
    /\ call.at = "collecting"
    /\ \A i \in 1..Len(futures) : futures[i].state = "collected"
    /\ call' = [at |-> "returned", exc |-> "none"]
    /\ UNCHANGED << no_fetch_vars, served, futures, result >>

\* the with block (line 351) is left by the exception: the pool is shut
\* down, which waits for every submitted call, and the exception leaves
\* fetch_issues_history_bulk
Unwind ==
    /\ call.at = "unwinding"
    /\ \A i \in 1..Len(futures) : futures[i].state \in {"done", "collected"}
    /\ call' = [at |-> "raised", exc |-> call.exc]
    /\ UNCHANGED << no_fetch_vars, served, futures, result >>

NextFetch == Submit \/ StartFetch \/ FinishFetch \/ Collect \/ Return \/ Unwind

SpecFetch == InitFetch /\ [][NextFetch]_vars

(***************************************************************************)
(* C23.  A failed history fetch.                                           *)
(***************************************************************************)
\* the history the upstream holds for an issue: the nodes of its pages
RECURSIVE ServedHistory(_)
ServedHistory(responses) ==
    IF responses = <<>> THEN <<>>
    ELSE Head(responses).nodes \o ServedHistory(Tail(responses))

\* the issue ids whose own fetch meets no transport error and no reported
\* error
Fetchable == {i \in 1..Len(served) : \A n \in 1..Len(served[i]) : served[i][n].k \in {"page", "no_issue"}}

\* C23: a failed history fetch for one item, by a transport error or an
\* error the API reports, does not abort the batch: no exception leaves
\* fetch_issues_history_bulk, and the dict it returns holds the complete
\* history of every item whose own fetch succeeded.
C23_FailedFetchIsIsolated ==
    /\ call.at # "raised"
    /\ call.at = "returned" =>
           \A i \in Fetchable : i \in DOMAIN result /\ result[i] = ServedHistory(served[i])

(***************************************************************************)
(* The command line: main (linear_to_excel.py, lines 195-292) looks at its *)
(* options, fetches and calls one generator.                               *)
(***************************************************************************)
\* str.upper
UpperText(s) == [i \in 1..Len(s) |-> UpperChar(s[i])]

\* the keys of the teams fetch_teams returns
TeamKeys == {<< "A", "P", "P" >>}

\* get_team_by_key (linear_api.py, lines 174-179): a team whose key equals
\* the key asked for, both upper-cased, is found
get_team_by_key(team_key) == \E key \in TeamKeys : UpperText(key) = UpperText(team_key)

\* datetime.strptime(text, "%Y-%m-%d"), line 244: a year of four digits, a
\* month and a day of one or two digits, joined by "-", that name a day of
\* the calendar; every other text raises ValueError
StrpTime(text) ==
    LET parts == SplitOn(text, "-")
        digits == /\ Len(parts) = 3
                  /\ \A i \in 1..3 : parts[i] # <<>> /\ AllDigits(parts[i], 1, Len(parts[i]))
                  /\ Len(parts[1]) = 4
                  /\ Len(parts[2]) <= 2
                  /\ Len(parts[3]) <= 2
        y == DigitsValue(parts[1])
        m == DigitsValue(parts[2])
        d == DigitsValue(parts[3])
    IN  IF digits /\ y >= 1 /\ m \in 1..12 /\ d \in 1..DaysInMonth(y, m)
        THEN [ok |-> TRUE, t |-> (DaysFromCivil(y, m, d) - EpochDays) * HoursPerDay]
        ELSE [ok |-> FALSE, t |-> 0]

\* a slip: the start date is parsed when the generator is about to be called
main_DateParsedLate(args) ==
    LET generator ==
            IF args.input_file THEN << "overwrite_excel" >>
            ELSE IF args.append THEN << "append_to_excel" >>
            ELSE IF args.by_cycles THEN << "create_excel_by_cycles" >>
            ELSE IF args.by_weeks
            THEN << "fetch_issues_history_bulk", "create_excel_by_weeks" >>
            ELSE << "create_excel" >>
    IN  IF args.issue_id # <<>>
        THEN [invoked |-> << "display_issue_history" >>, exit_status |-> 0]
        ELSE IF args.list_teams
        THEN [invoked |-> << "fetch_teams" >>, exit_status |-> 0]
        ELSE IF args.list_initiatives
        THEN [invoked |-> << "fetch_all_initiatives" >>, exit_status |-> 0]
        ELSE IF args.team = <<>>
        THEN [invoked |-> <<>>, exit_status |-> 1]
        ELSE IF ~get_team_by_key(args.team)
        THEN [invoked |-> << "get_team_by_key" >>, exit_status |-> 1]
        ELSE IF args.start_date # <<>> /\ ~StrpTime(args.start_date).ok
        THEN [invoked |-> << "get_team_by_key", "fetch_issues_for_team" >>,
              exit_status |-> 1]
        ELSE [invoked |-> << "get_team_by_key", "fetch_issues_for_team" >> \o generator,
              exit_status |-> 0]

\* main (lines 195-292): the functions called, in order, and the exit status.
\* --issue-history, --list-teams and --list-initiatives return before any
\* other option is looked at (197-219); sys.exit(1) ends a run without a
\* team or with a team that is not found (221-228); the ValueError of
\* strptime (244) is caught nowhere and ends the run with status 1
main(args) ==
    LET generator ==
            IF args.input_file THEN << "overwrite_excel" >>
            ELSE IF args.append THEN << "append_to_excel" >>
            ELSE IF args.by_cycles THEN << "create_excel_by_cycles" >>
            ELSE IF args.by_weeks
            THEN << "fetch_issues_history_bulk", "create_excel_by_weeks" >>
            ELSE << "create_excel" >>
    IN  IF args.issue_id # <<>>
        THEN [invoked |-> << "display_issue_history" >>, exit_status |-> 0]
        ELSE IF args.list_teams
        THEN [invoked |-> << "fetch_teams" >>, exit_status |-> 0]
        ELSE IF args.list_initiatives
        THEN [invoked |-> << "fetch_all_initiatives" >>, exit_status |-> 0]
        ELSE IF args.team = <<>>
        THEN [invoked |-> <<>>, exit_status |-> 1]
        ELSE IF ~get_team_by_key(args.team)
        THEN [invoked |-> << "get_team_by_key" >>, exit_status |-> 1]
        ELSE IF args.start_date # <<>> /\ ~StrpTime(args.start_date).ok
        THEN [invoked |-> << "get_team_by_key" >>, exit_status |-> 1]
        ELSE [invoked |-> << "get_team_by_key", "fetch_issues_for_team" >> \o generator,
              exit_status |-> 0]

\* the texts given as --team: none, the key of a team in either case, a key
\* no team has
TeamTexts == {<<>>, << "A", "P", "P" >>, << "a", "p", "p" >>, << "X", "Y", "Z" >>}

\* the texts given as --start-date that name no day in year-month-day order
MalformedDates ==
    {<< "2", "0", "2", "5", "-", "1", "3", "-", "0", "1" >>,
     << "2", "0", "2", "5", "-", "0", "2", "-", "3", "0" >>,
     << "0", "1", "/", "1", "5", "/", "2", "0", "2", "5" >>,
     << "2", "0", "2", "5", "-", "0", "1", "-", "1", "5", "T", "0", "0", ":", "0", "0", ":", "0", "0" >>}

\* the texts given as --start-date: none, a date, a date without the
\* leading zeros, and the malformed ones
StartDateTexts ==
    {<<>>, << "2", "0", "2", "5", "-", "0", "1", "-", "1", "5" >>,
     << "2", "0", "2", "5", "-", "1", "-", "5" >>}
    \cup MalformedDates

\* the identifier given as --issue-history: none, or that of an issue
IssueIdTexts == {<<>>, << "A", "P", "P", "-", "1" >>}

Arguments ==
    [team : TeamTexts, start_date : StartDateTexts, issue_id : IssueIdTexts,
     list_teams : BOOLEAN, list_initiatives : BOOLEAN, input_file : BOOLEAN,
     append : BOOLEAN, by_cycles : BOOLEAN, by_weeks : BOOLEAN]

InitMain ==
    /\ issues = <<>>
    /\ start_date = StartDate
    /\ num_weeks = 0
    /\ cycle_start = NoStamp
    /\ ws = EmptySheet
    /\ last_op = "init"
    /\ existing = NoExistingData
    /\ weeks_used = 0
    /\ edits = 0
    /\ date_text = <<>>
    /\ name = <<>>
    /\ first_only = TRUE
    /\ returned = <<>>
    /\ change_log = <<>>
    /\ target_date = 0
    /\ wb = NoWorkbook
    /\ loaded = NoWorkbook
    /\ NoFetch
    /\ argv \in Arguments
    /\ invoked = <<>>
    /\ exit_status = -1

\* main runs to its end
Main ==
    /\ exit_status = -1
    /\ invoked' = main(argv).invoked
    /\ exit_status' = main(argv).exit_status
    /\ last_op' = "main"
    /\ UNCHANGED << issues, start_date, num_weeks, cycle_start, ws, existing, weeks_used,
                    edits, date_text, name, first_only, returned, change_log,
                    target_date, wb, loaded, fetch_vars, argv >>

NextMain == Main

SpecMain == InitMain /\ [][NextMain]_vars

(***************************************************************************)
(* C24.  Input errors of the command line.                                 *)
(***************************************************************************)
\* the run asks for a planning workbook: not for the history of an issue,
\* not for the list of teams or of initiatives
PlanningRun == argv.issue_id = <<>> /\ ~argv.list_teams /\ ~argv.list_initiatives

\* the run has an input error: no team key, a key no team has, or a
\* malformed start date
InputError ==
    /\ PlanningRun
    /\ \/ argv.team = <<>>
       \/ argv.team \notin {<< "A", "P", "P" >>, << "a", "p", "p" >>}
       \/ argv.start_date \in MalformedDates

IssueFetches == {"fetch_issues_for_team", "fetch_issues_history_bulk", "display_issue_history"}

Generators ==
    {"create_excel", "overwrite_excel", "append_to_excel", "create_excel_by_cycles",
     "create_excel_by_weeks"}

\* C24: on an input error of the command line (a missing or unknown team
\* key, a malformed --start-date) main ends with a non-zero exit status
\* before any issue is fetched and before a workbook is created or saved:
\* no generator is invoked.
C24_InputErrorEndsTheRun ==
    (exit_status # -1 /\ InputError) =>
        /\ exit_status # 0
        /\ \A i \in 1..Len(invoked) : invoked[i] \notin IssueFetches \cup Generators

\* a run with a known team and a malformed start date has ended
C24_Witness ==
    /\ exit_status = 1
    /\ argv.team = << "a", "p", "p" >>
    /\ argv.start_date \in MalformedDates
    /\ PlanningRun
    /\ argv.by_weeks
    /\ invoked = << "get_team_by_key" >>

(***************************************************************************)
(* C25.  The provenance label of a week column.                            *)
(***************************************************************************)
\* the placements written in a week column of the refreshed sheet: the
\* fresh cycle placements are the green cells of the issue rows, the
\* carried-over and the no-cycle placements the yellow ones
PlacementsIn(col, fill) == {r \in IssueRowsOf(ws) : CellFill(ws, r, col) = fill}

\* the label above the week column, in the data source row
ProvenanceLabel(col) == CellValue(ws, 1, col)

\* C25: in a refreshed sheet every week column is labelled from the
\* placements written in it: "Linear" when it holds at least one fresh
\* cycle placement, also next to carried-over ones; "Estimation" when it
\* holds only carried-over or no-cycle placements; no label when it holds
\* no placement.
C25_ProvenanceLabels ==
    last_op = "refresh" =>
        \A col \in WeekColsOf(ws, weeks_used) :
            ProvenanceLabel(col) =
                TextVal(IF PlacementsIn(col, "green") # {} THEN LinearLabel
                        ELSE IF PlacementsIn(col, "yellow") # {} THEN EstimationLabel
                        ELSE <<>>)

\* a refreshed sheet with a week column that holds a fresh cycle placement
\* and a carried-over value, labelled "Linear"
C25_Witness ==
    /\ last_op = "refresh"
    /\ \E col \in WeekColsOf(ws, weeks_used) :
           /\ PlacementsIn(col, "green") # {}
           /\ \E r \in PlacementsIn(col, "yellow") : CellValue(ws, r, col).k = "num"
           /\ ProvenanceLabel(col) = TextVal(LinearLabel)

(***************************************************************************)
(* C26.  format_name on every input.                                       *)
(***************************************************************************)
\* C26: format_name is total: for every name (missing or empty, only
\* whitespace, a part before "@" that is empty or blank) and either
\* first_only it returns a value and raises nothing, and a missing or empty
\* name is returned unchanged.
C26_FormatNameIsTotal ==
    last_op = "format_name" =>
        /\ ~returned.raised
        /\ name = <<>> => returned.value = name

(***************************************************************************)
(* C28.  Refreshing twice.                                                 *)
(***************************************************************************)
\* the values of the cells of a sheet, fills apart
CellValues(sheet) == [p \in DOMAIN sheet |-> sheet[p].v]

\* what refresh_excel reads from the refreshed sheet when it is applied to
\* it once more
ReadAgain == read_existing_capacity_data(ws, start_date)

\* the sheet refresh_excel writes when it is applied once more with the
\* same issues, start date and week count
RefreshedAgain ==
    populate_sheet_refresh(issues, start_date, RefreshNumWeeks(ReadAgain, num_weeks),
                           ReadAgain.capacity, ReadAgain.assignees)

\* C28: refresh is idempotent: refresh_excel applied twice with the same
\* issues, start date and week count gives the cell values (capacity rows,
\* assignees, weekly placements, provenance labels) and the week count
\* that applying it once gives.
C28_RefreshIsIdempotent ==
    last_op = "refresh" =>
        /\ RefreshNumWeeks(ReadAgain, num_weeks) = weeks_used
        /\ CellValues(RefreshedAgain) = CellValues(ws)

=============================================================================
